---- MODULE Spec2Model ----
(***************************************************************************)
(* Resource lifecycle operations of the azuread provider:                  *)
(*   - administrative unit member Create / Read / Delete                   *)
(*   - ApplicationRegistration Read / Update / Delete                      *)
(* run as concurrent tasks against one remote directory, sharing the       *)
(* named-lock registry and the per-service clients' DisableRetries flags.  *)
(***************************************************************************)
EXTENDS Integers, Sequences, FiniteSets, TLC

(***************************************************************************)
(* Bounds and inputs                                                       *)
(***************************************************************************)
Procs == {"t1", "t2"}
AdministrativeUnitIds == {"au1", "au2"}
MemberIds == {"m1"}
ApplicationIds == {"app1"}

None == "none"
NoId == <<>>

\* outcome of one remote call, as the handlers tell them apart:
\* err == nil / err != nil with status 404 / err != nil with another status
OK == "OK"
NotFound == "NotFound"
Error == "Error"

administrativeUnitResourceName == "azuread_administrative_unit"
applicationResourceName == "azuread_application"

\* the outcome of waiting on a context whose deadline has passed
DeadlineExceeded == "DeadlineExceeded"

\* the scripted probe sequence of the hysteresis property
ScriptedProbes == <<NotFound, OK, NotFound, OK, OK, OK>>

VARIABLES
    pc,             \* task -> position in its handler ("done" between operations)
    op,             \* task -> the handler it runs (or ran last)
    objectId,       \* task -> administrative unit ID / application ID of the operation
    memberId,       \* task -> member ID of the operation (None for applications)
    resourceId,     \* task -> d.Id() of the ResourceData the operation works on
    result,         \* task -> what the handler returned
    holder,         \* lock registry: (resource name, id) -> task holding it, or None
    disableRetries, \* client -> BaseClient.DisableRetries
    membership,     \* remote: administrative unit -> membership of the member
    application,    \* remote: application ID -> state of the application object
    targetOccurence,\* task -> consecutive target observations of the running poll
    status,         \* task -> outcome of the task's last fetch, remove or wait
    mutations,      \* task -> mutating remote calls the operation has issued
    inputs,         \* which change sets (rd.HasChange) an Update is called with: "one" or "all"
    changed,        \* task -> attributes rd.HasChange reports for the running Update
    properties,     \* task -> fields set in the msgraph.Application the running Update has built
    expired,        \* task -> the deadline of the operation's context passed while it waited for its lock
    given,          \* task -> the lookup attributes userDataSourceRead is called with a non-empty value for
    lookup,         \* task -> the attribute userDataSourceRead finds its user by (None if none is set)
    managerId,      \* task -> the manager_id userDataSourceRead has set (None while unset)
    modelStatus,    \* task -> the status in the model (state) of the schedule resource the operation works on
    calls,          \* task -> the requests a schedule operation has sent to the requests client, the calls userDataSourceRead has made
    populatedFrom,  \* task -> what a schedule Read has populated the model from (None if it has not)
    requests,       \* task -> what the requests client answered to the List of a schedule Read or the Create of a schedule Create
    rawStateIn,     \* the state map a state upgrade chain is handed
    rawState,       \* the state map as the upgraders have left it
    upgradeErr,     \* what the last upgrader returned as its error (None before the first)
    upgrades,       \* the upgraders applied so far
    script          \* task -> probes of the visibility poll so far, while they follow ScriptedProbes; -1 once they differ

vars == <<pc, op, objectId, memberId, resourceId, result, holder,
          disableRetries, membership, application, targetOccurence, status,
          mutations, inputs, changed, properties, expired, given, lookup, managerId,
          modelStatus, calls, populatedFrom, requests, rawStateIn, rawState,
          upgradeErr, upgrades, script>>

updateVars == <<inputs, changed, properties>>

\* the state of userDataSourceRead
dataSourceVars == <<given, lookup, managerId>>

\* the state of a state upgrade
migrationVars == <<rawStateIn, rawState, upgradeErr, upgrades>>

\* the state of the privileged access group schedule resources
scheduleVars == <<modelStatus, calls, populatedFrom, requests>>

\* the state of the resource handlers, which the data source leaves alone
resourceVars == <<objectId, memberId, holder, membership, application,
                  targetOccurence, mutations, expired, script>>

LockKeys == {administrativeUnitResourceName, applicationResourceName}
              \X (AdministrativeUnitIds \cup MemberIds \cup ApplicationIds)

Clients == {"AdministrativeUnitsClient", "ApplicationsClient", "UsersClient"}

MemberOps == {"administrativeUnitMemberResourceCreate",
              "administrativeUnitMemberResourceRead",
              "administrativeUnitMemberResourceDelete"}
ApplicationOps == {"ApplicationRegistrationRead",
                   "ApplicationRegistrationUpdate",
                   "ApplicationRegistrationDelete"}

\* parse.NewAdministrativeUnitMemberID(...).String() and parse.NewApplicationID(...).ID()
AdministrativeUnitMemberID(au, m) == <<au, m>>
ApplicationID(a) == <<a>>

(***************************************************************************)
(* The remote directory, as the clients see it.  The store is replicated:  *)
(* a read may miss a membership that was just added, or still see one that *)
(* was just removed.                                                       *)
(***************************************************************************)
\* AdministrativeUnitsClient.GetMember
GetMember(au) ==
    CASE membership[au] = "never"   -> {NotFound, Error}
      [] membership[au] = "present" -> {OK, NotFound, Error}
      [] membership[au] = "removed" -> {NotFound, OK, Error}

\* AdministrativeUnitsClient.RemoveMembers
RemoveMembers(au) ==
    IF membership[au] = "present" THEN {OK, Error} ELSE {OK, NotFound, Error}

\* ApplicationsClient.Get
ApplicationsGet(a) ==
    IF application[a] = "present" THEN {OK, Error} ELSE {NotFound, OK, Error}

\* ApplicationsClient.Delete
ApplicationsDelete(a) ==
    IF application[a] = "present" THEN {OK, Error} ELSE {NotFound, Error}

\* a remote call made with the context of task p: once the deadline of the
\* context has passed the call fails without an HTTP status
WithContext(p, outcomes) == IF expired[p] THEN {Error} ELSE outcomes

(***************************************************************************)
(* Named mutex registry (tf.LockByName / tf.UnlockByName)                  *)
(***************************************************************************)
\* a lock that is handed to whoever asks, held or not
LockFreeAlways(k) == TRUE
LockFree(k) == holder[k] = None
LockByName(p, k) == [holder EXCEPT ![k] = p]
UnlockByName(h, k) == [h EXCEPT ![k] = None]

\* the key each locking handler passes to LockByName and UnlockByName
\* a Create that locks by the member instead of the administrative unit
CreateLockKeyByMember(p) == <<administrativeUnitResourceName, memberId[p]>>
CreateLockKey(p) == <<administrativeUnitResourceName, objectId[p]>>
\* a Delete that locks by the member instead of the administrative unit
DeleteLockKeyByMember(p) == <<administrativeUnitResourceName, memberId[p]>>
DeleteLockKey(p) == <<administrativeUnitResourceName, objectId[p]>>
UpdateLockKey(p) == <<applicationResourceName, objectId[p]>>

LockKeyOf(p) ==
    CASE op[p] = "administrativeUnitMemberResourceCreate" -> CreateLockKey(p)
      [] op[p] = "administrativeUnitMemberResourceDelete" -> DeleteLockKey(p)
      [] op[p] = "ApplicationRegistrationUpdate" -> UpdateLockKey(p)

LockingOps == {"administrativeUnitMemberResourceCreate",
               "administrativeUnitMemberResourceDelete",
               "ApplicationRegistrationUpdate"}

\* an UnlockByName that runs only when the handler succeeds
UnlockOnSuccess(p, res) ==
    IF op[p] \in LockingOps /\ res = "ok"
    THEN UnlockByName(holder, LockKeyOf(p))
    ELSE holder

\* a handler that returns without UnlockByName
DeferredUnlockMissing(p, res) == holder

\* the deferred UnlockByName of a locking handler, run when it returns res
DeferredUnlock(p, res) ==
    IF op[p] \in LockingOps
    THEN UnlockByName(holder, LockKeyOf(p))
    ELSE holder

\* the deferred "DisableRetries = false" of the ApplicationRegistration handlers
DeferredRetries(p, dr) ==
    IF op[p] \in {"ApplicationRegistrationRead", "ApplicationRegistrationDelete"}
    THEN [dr EXCEPT !["ApplicationsClient"] = FALSE]
    ELSE dr

(***************************************************************************)
(* Eventual-consistency polling                                            *)
(***************************************************************************)
\* a StateChangeConf that leaves ContinuousTargetOccurence at its default
CreateStateChangeConfDefault ==
    [Pending |-> "Waiting", Target |-> "Done", ContinuousTargetOccurence |-> 1]

\* the StateChangeConf of Create's visibility poll
CreateStateChangeConf ==
    [Pending |-> "Waiting", Target |-> "Done", ContinuousTargetOccurence |-> 3]

\* the StateChangeConf helpers.WaitForDeletion builds
DeletionStateChangeConf ==
    [Pending |-> "Waiting", Target |-> "Deleted", ContinuousTargetOccurence |-> 3]

\* StateChangeConf.WaitForStateContext: what one refresh result does to a wait
\* that has seen occ consecutive target states
WaitForStateContext(conf, state, occ) ==
    IF state = "Error" THEN [verdict |-> "error", occ |-> occ]
    ELSE IF state = conf.Target
         THEN IF occ + 1 >= conf.ContinuousTargetOccurence
              THEN [verdict |-> "success", occ |-> occ + 1]
              ELSE [verdict |-> "continue", occ |-> occ + 1]
    ELSE IF state = conf.Pending THEN [verdict |-> "continue", occ |-> 0]
    ELSE [verdict |-> "error", occ |-> occ]

\* a Refresh that reports every failed fetch as "Waiting"
CreateRefreshSwallowsErrors(o) ==
    CASE o = NotFound -> "Waiting"
      [] o = Error    -> "Waiting"
      [] o = OK       -> "Done"

\* the Refresh function of Create's visibility poll
CreateRefresh(o) ==
    CASE o = NotFound -> "Waiting"
      [] o = Error    -> "Error"
      [] o = OK       -> "Done"

\* the probe Delete hands to WaitForDeletion: "exists" / "absent" / error
DeletionProbe(o) ==
    CASE o = NotFound -> "absent"
      [] o = Error    -> "error"
      [] o = OK       -> "exists"

\* helpers.WaitForDeletion: the refresh it builds from the probe
WaitForDeletionRefresh(e) ==
    CASE e = "error"  -> "Error"
      [] e = "exists" -> "Waiting"
      [] e = "absent" -> "Deleted"

\* position in ScriptedProbes after the next probe observes o
Follow(sc, o) ==
    IF sc >= 0 /\ sc < Len(ScriptedProbes) /\ ScriptedProbes[sc + 1] = o
    THEN sc + 1 ELSE -1

(***************************************************************************)
(* Handler exit: the result is recorded and the deferred calls run         *)
(***************************************************************************)
Return(p, res, dr, rid) ==
    /\ pc' = [pc EXCEPT ![p] = "done"]
    /\ result' = [result EXCEPT ![p] = res]
    /\ holder' = DeferredUnlock(p, res)
    /\ disableRetries' = DeferredRetries(p, dr)
    /\ resourceId' = [resourceId EXCEPT ![p] = rid]
    /\ targetOccurence' = [targetOccurence EXCEPT ![p] = 0]

\* the handler moves on to position next
Goto(p, next) ==
    /\ pc' = [pc EXCEPT ![p] = next]
    /\ UNCHANGED <<result, holder>>

Init ==
    /\ pc = [p \in Procs |-> "done"]
    /\ op = [p \in Procs |-> None]
    /\ objectId = [p \in Procs |-> None]
    /\ memberId = [p \in Procs |-> None]
    /\ resourceId = [p \in Procs |-> NoId]
    /\ result = [p \in Procs |-> None]
    /\ holder = [k \in LockKeys |-> None]
    /\ disableRetries = [c \in Clients |-> FALSE]
    /\ membership = [au \in AdministrativeUnitIds |-> "never"]
    /\ application = [a \in ApplicationIds |-> "present"]
    /\ targetOccurence = [p \in Procs |-> 0]
    /\ status = [p \in Procs |-> None]
    /\ mutations = [p \in Procs |-> 0]
    /\ script = [p \in Procs |-> 0]
    /\ expired = [p \in Procs |-> FALSE]
    /\ given = [p \in Procs |-> {}]
    /\ rawStateIn = <<>>
    /\ rawState = <<>>
    /\ upgradeErr = None
    /\ upgrades = <<>>
    /\ lookup = [p \in Procs |-> None]
    /\ managerId = [p \in Procs |-> None]
    /\ modelStatus = [p \in Procs |-> None]
    /\ calls = [p \in Procs |-> <<>>]
    /\ populatedFrom = [p \in Procs |-> None]
    /\ requests = [p \in Procs |-> [err |-> None, list |-> <<>>]]
    /\ changed = [p \in Procs |-> {}]
    /\ properties = [p \in Procs |-> {}]
    /\ inputs = "one"

\* a task takes up an operation: its handler runs up to its first remote call or lock
Begin(p, o, obj, m, rid, first) ==
    /\ pc[p] = "done"
    /\ pc' = [pc EXCEPT ![p] = first]
    /\ op' = [op EXCEPT ![p] = o]
    /\ objectId' = [objectId EXCEPT ![p] = obj]
    /\ memberId' = [memberId EXCEPT ![p] = m]
    /\ resourceId' = [resourceId EXCEPT ![p] = rid]
    /\ result' = [result EXCEPT ![p] = None]
    /\ status' = [status EXCEPT ![p] = None]
    /\ mutations' = [mutations EXCEPT ![p] = 0]
    /\ script' = [script EXCEPT ![p] = 0]
    /\ expired' = [expired EXCEPT ![p] = FALSE]
    /\ UNCHANGED <<dataSourceVars, migrationVars, scheduleVars>>
    /\ UNCHANGED <<holder, membership, application, targetOccurence>>

(***************************************************************************)
(* administrativeUnitMemberResourceCreate                                  *)
(***************************************************************************)
Create_Begin(p) ==
    /\ pc[p] = "done"
    /\ UNCHANGED updateVars
    /\ \E au \in AdministrativeUnitIds, m \in MemberIds :
           /\ Begin(p, "administrativeUnitMemberResourceCreate", au, m, NoId, "c_lock")
           /\ UNCHANGED disableRetries

Create_LockByName(p) ==
    /\ pc[p] = "c_lock"
    /\ UNCHANGED <<expired, dataSourceVars, migrationVars, scheduleVars>>
    /\ LockFree(CreateLockKey(p))
    /\ holder' = LockByName(p, CreateLockKey(p))
    /\ pc' = [pc EXCEPT ![p] = "c_get"]
    /\ UNCHANGED <<op, objectId, memberId, resourceId, result,
                   disableRetries, membership, application, targetOccurence, status, mutations, script>>
    /\ UNCHANGED updateVars

\* what Create does with the outcome of client.Get of the administrative unit
GetAdministrativeUnit(o) ==
    CASE o = NotFound -> "AdministrativeUnitNotFound"
      [] o = Error    -> "RemoteError"
      [] o = OK       -> "proceed"

\* client.Get of the administrative unit, then DisableRetries = true
Create_Get(p) ==
    /\ pc[p] = "c_get"
    /\ UNCHANGED <<expired, dataSourceVars, migrationVars, scheduleVars>>
    /\ \E o \in WithContext(p, {OK, NotFound, Error}) :
        /\ status' = [status EXCEPT ![p] = o]
        /\ IF GetAdministrativeUnit(o) = "proceed"
           THEN /\ Goto(p, "c_getMember")
                /\ disableRetries' = [disableRetries EXCEPT !["AdministrativeUnitsClient"] = TRUE]
                /\ UNCHANGED <<resourceId, targetOccurence>>
           ELSE Return(p, GetAdministrativeUnit(o), disableRetries, resourceId[p])
    /\ UNCHANGED <<op, objectId, memberId, membership, application, mutations, script>>
    /\ UNCHANGED updateVars

\* a Create that adopts an existing membership instead of rejecting it
ExistenceProbeAdopts(o) ==
    CASE o = OK       -> "proceed"
      [] o = NotFound -> "proceed"
      [] o = Error    -> "RemoteError"

\* what Create does with the outcome of its existence probe
ExistenceProbe(o) ==
    CASE o = OK       -> "AlreadyExists"
      [] o = NotFound -> "proceed"
      [] o = Error    -> "RemoteError"

\* the existence probe client.GetMember, DisableRetries = false, and
\* directoryObjectsClient.Get of the member principal (an error or a nil object fails)
Create_GetMember(p) ==
    /\ pc[p] = "c_getMember"
    /\ UNCHANGED <<expired, dataSourceVars, migrationVars, scheduleVars>>
    /\ \E o \in GetMember(objectId[p]), memberObject \in {OK, NotFound, Error} :
        /\ status' = [status EXCEPT ![p] = o]
        /\ IF ExistenceProbe(o) = "proceed"
           THEN /\ disableRetries' = [disableRetries EXCEPT !["AdministrativeUnitsClient"] = FALSE]
                /\ IF memberObject = OK
                   THEN /\ Goto(p, "c_addMembers")
                        /\ UNCHANGED <<resourceId, targetOccurence>>
                   ELSE /\ pc' = [pc EXCEPT ![p] = "done"]
                        /\ result' = [result EXCEPT ![p] = "RemoteError"]
                        /\ holder' = DeferredUnlock(p, "RemoteError")
                        /\ UNCHANGED <<resourceId, targetOccurence>>
           ELSE Return(p, ExistenceProbe(o), disableRetries, resourceId[p])
    /\ UNCHANGED <<op, objectId, memberId, membership, application, mutations, script>>
    /\ UNCHANGED updateVars

\* a Create that checks ctx.Deadline() before it calls client.AddMembers
Create_AddMembersChecksDeadlineFirst(p) ==
    /\ pc[p] = "c_addMembers"
    /\ UNCHANGED <<expired, dataSourceVars, migrationVars, scheduleVars>>
    /\ \E o \in {OK, Error}, ok \in BOOLEAN :
        IF ~ok
        THEN /\ Return(p, "NoDeadline", disableRetries, resourceId[p])
             /\ UNCHANGED <<op, objectId, memberId, membership,
                            application, status, mutations, script>>
        ELSE IF o = Error
        THEN /\ Return(p, "RemoteError", disableRetries, resourceId[p])
             /\ UNCHANGED <<op, objectId, memberId, membership,
                            application, status, mutations, script>>
        ELSE /\ membership' = [membership EXCEPT ![objectId[p]] = "present"]
             /\ mutations' = [mutations EXCEPT ![p] = @ + 1]
             /\ IF ok
                THEN /\ Goto(p, "c_wait")
                     /\ UNCHANGED <<disableRetries, resourceId, targetOccurence>>
                ELSE Return(p, "NoDeadline", disableRetries, resourceId[p])
             /\ UNCHANGED <<op, objectId, memberId, application,
                            status, script>>
    /\ UNCHANGED updateVars

\* client.AddMembers, then the ctx.Deadline() check before the wait
Create_AddMembers(p) ==
    /\ pc[p] = "c_addMembers"
    /\ UNCHANGED <<expired, dataSourceVars, migrationVars, scheduleVars>>
    /\ \E o \in {OK, Error}, ok \in BOOLEAN :
        IF o = Error
        THEN /\ Return(p, "RemoteError", disableRetries, resourceId[p])
             /\ UNCHANGED <<op, objectId, memberId, membership,
                            application, status, mutations, script>>
        ELSE /\ membership' = [membership EXCEPT ![objectId[p]] = "present"]
             /\ mutations' = [mutations EXCEPT ![p] = @ + 1]
             /\ IF ok
                THEN /\ Goto(p, "c_wait")
                     /\ UNCHANGED <<disableRetries, resourceId, targetOccurence>>
                ELSE Return(p, "NoDeadline", disableRetries, resourceId[p])
             /\ UNCHANGED <<op, objectId, memberId, application,
                            status, script>>
    /\ UNCHANGED updateVars

\* a Create that sets the ID however the wait ended
CreateAfterWaitAlwaysSetId(v) ==
    CASE v = "success" -> "SetId"
      [] v = "error"   -> "SetId"
      [] v = "timeout" -> "SetId"

\* a Create that does not tell the timeout of the wait from the error of a probe
CreateAfterWaitConflated(v) ==
    CASE v = "success" -> "SetId"
      [] v = "error"   -> "ProbeError"
      [] v = "timeout" -> "ProbeError"

\* what Create does once WaitForStateContext has returned: d.SetId and Read,
\* or the error of the wait
CreateAfterWait(v) ==
    CASE v = "success" -> "SetId"
      [] v = "error"   -> "ProbeError"
      [] v = "timeout" -> "ConsistencyTimeout"

\* one refresh of the visibility poll
Create_Refresh(p) ==
    /\ pc[p] = "c_wait"
    /\ UNCHANGED <<expired, dataSourceVars, migrationVars, scheduleVars>>
    /\ \E o \in GetMember(objectId[p]) :
        LET w == WaitForStateContext(CreateStateChangeConf, CreateRefresh(o),
                                     targetOccurence[p])
        IN  /\ status' = [status EXCEPT ![p] = o]
            /\ IF w.verdict = "continue"
               THEN /\ targetOccurence' = [targetOccurence EXCEPT ![p] = w.occ]
                    /\ script' = [script EXCEPT ![p] = Follow(@, o)]
                    /\ UNCHANGED <<pc, result, holder, disableRetries, resourceId>>
               ELSE IF CreateAfterWait(w.verdict) = "SetId"
               THEN /\ Goto(p, "c_read")
                    /\ resourceId' = [resourceId EXCEPT ![p] =
                                        AdministrativeUnitMemberID(objectId[p], memberId[p])]
                    /\ targetOccurence' = [targetOccurence EXCEPT ![p] = 0]
                    /\ script' = [script EXCEPT ![p] = Follow(@, o)]
                    /\ UNCHANGED disableRetries
               ELSE /\ Return(p, CreateAfterWait(w.verdict), disableRetries, resourceId[p])
                    /\ script' = [script EXCEPT ![p] = 0]
    /\ UNCHANGED <<op, objectId, memberId, membership, application, mutations>>
    /\ UNCHANGED updateVars

\* a Create that removes the member again when its poll times out
Create_TimeoutRollsBack(p) ==
    /\ pc[p] = "c_wait"
    /\ status' = [status EXCEPT ![p] = DeadlineExceeded]
    /\ membership' = [membership EXCEPT ![objectId[p]] = "removed"]
    /\ mutations' = [mutations EXCEPT ![p] = @ + 1]
    /\ Return(p, "ConsistencyTimeout", disableRetries, resourceId[p])
    /\ script' = [script EXCEPT ![p] = 0]
    /\ UNCHANGED <<op, objectId, memberId, application>>
    /\ UNCHANGED <<expired, dataSourceVars, migrationVars, scheduleVars, updateVars>>

\* the deadline of the context passes while the poll waits
Create_Timeout(p) ==
    /\ pc[p] = "c_wait"
    /\ UNCHANGED <<expired, dataSourceVars, migrationVars, scheduleVars>>
    /\ status' = [status EXCEPT ![p] = DeadlineExceeded]
    /\ IF CreateAfterWait("timeout") = "SetId"
       THEN /\ Goto(p, "c_read")
            /\ resourceId' = [resourceId EXCEPT ![p] =
                                AdministrativeUnitMemberID(objectId[p], memberId[p])]
            /\ targetOccurence' = [targetOccurence EXCEPT ![p] = 0]
            /\ UNCHANGED disableRetries
       ELSE Return(p, CreateAfterWait("timeout"), disableRetries, resourceId[p])
    /\ script' = [script EXCEPT ![p] = 0]
    /\ UNCHANGED <<op, objectId, memberId, membership, application, mutations>>
    /\ UNCHANGED updateVars

\* a Read that reports a 404 as an error
ReadOutcomeNotFoundFails(o) ==
    CASE o = NotFound -> [res |-> "RemoteError", gone |-> FALSE]
      [] o = Error    -> [res |-> "RemoteError", gone |-> FALSE]
      [] o = OK       -> [res |-> "ok", gone |-> FALSE]

\* what a Read handler does with the outcome of its fetch
ReadOutcome(o) ==
    CASE o = NotFound -> [res |-> "ok", gone |-> TRUE]
      [] o = Error    -> [res |-> "RemoteError", gone |-> FALSE]
      [] o = OK       -> [res |-> "ok", gone |-> FALSE]

\* the administrativeUnitMemberResourceRead that ends Create
Create_Read(p) ==
    /\ pc[p] = "c_read"
    /\ UNCHANGED <<expired, dataSourceVars, migrationVars, scheduleVars>>
    /\ \E o \in GetMember(objectId[p]) :
        /\ status' = [status EXCEPT ![p] = o]
        /\ Return(p, ReadOutcome(o).res, disableRetries,
                  IF ReadOutcome(o).gone THEN NoId ELSE resourceId[p])
    /\ script' = [script EXCEPT ![p] = 0]
    /\ UNCHANGED <<op, objectId, memberId, membership, application, mutations>>
    /\ UNCHANGED updateVars

(***************************************************************************)
(* administrativeUnitMemberResourceRead                                    *)
(***************************************************************************)
Read_Begin(p) ==
    /\ pc[p] = "done"
    /\ UNCHANGED updateVars
    /\ \E au \in AdministrativeUnitIds, m \in MemberIds :
           /\ Begin(p, "administrativeUnitMemberResourceRead", au, m,
                    AdministrativeUnitMemberID(au, m), "r_getMember")
           /\ UNCHANGED disableRetries

Read_GetMember(p) ==
    /\ pc[p] = "r_getMember"
    /\ UNCHANGED <<expired, dataSourceVars, migrationVars, scheduleVars>>
    /\ \E o \in GetMember(objectId[p]) :
        /\ status' = [status EXCEPT ![p] = o]
        /\ Return(p, ReadOutcome(o).res, disableRetries,
                  IF ReadOutcome(o).gone THEN NoId ELSE resourceId[p])
    /\ UNCHANGED <<op, objectId, memberId, membership, application, mutations, script>>
    /\ UNCHANGED updateVars

(***************************************************************************)
(* administrativeUnitMemberResourceDelete                                  *)
(***************************************************************************)
Delete_Begin(p) ==
    /\ pc[p] = "done"
    /\ UNCHANGED updateVars
    /\ \E au \in AdministrativeUnitIds, m \in MemberIds :
           /\ Begin(p, "administrativeUnitMemberResourceDelete", au, m,
                    AdministrativeUnitMemberID(au, m), "d_lock")
           /\ UNCHANGED disableRetries

Delete_LockByName(p) ==
    /\ pc[p] = "d_lock"
    /\ UNCHANGED <<expired, dataSourceVars, migrationVars, scheduleVars>>
    /\ LockFree(DeleteLockKey(p))
    /\ holder' = LockByName(p, DeleteLockKey(p))
    /\ pc' = [pc EXCEPT ![p] = "d_removeMembers"]
    /\ UNCHANGED <<op, objectId, memberId, resourceId, result,
                   disableRetries, membership, application, targetOccurence, status, mutations, script>>
    /\ UNCHANGED updateVars

\* a Delete that goes on to the poll whatever its remove/delete call answered
DeleteOutcomeIgnoresError(o) == "wait"

\* what a Delete handler does with the outcome of its remote remove/delete call
DeleteOutcome(o) == IF o = OK THEN "wait" ELSE "RemoteError"

Delete_RemoveMembers(p) ==
    /\ pc[p] = "d_removeMembers"
    /\ UNCHANGED <<expired, dataSourceVars, migrationVars, scheduleVars>>
    /\ \E o \in WithContext(p, RemoveMembers(objectId[p])) :
        /\ status' = [status EXCEPT ![p] = o]
        /\ IF DeleteOutcome(o) = "wait"
           THEN /\ Goto(p, "d_wait")
                /\ membership' = [membership EXCEPT ![objectId[p]] =
                                    IF @ = "present" THEN "removed" ELSE @]
                /\ mutations' = [mutations EXCEPT ![p] = @ + 1]
                /\ UNCHANGED <<disableRetries, resourceId, targetOccurence>>
           ELSE /\ Return(p, DeleteOutcome(o), disableRetries, resourceId[p])
                /\ UNCHANGED <<membership, mutations>>
    /\ UNCHANGED <<op, objectId, memberId, application, script>>
    /\ UNCHANGED updateVars

\* the probe of the absence poll starts: DisableRetries = true
Delete_Probe(p) ==
    /\ pc[p] = "d_wait"
    /\ UNCHANGED <<expired, dataSourceVars, migrationVars, scheduleVars>>
    /\ Goto(p, "d_getMember")
    /\ disableRetries' = [disableRetries EXCEPT !["AdministrativeUnitsClient"] = TRUE]
    /\ UNCHANGED <<op, objectId, memberId, resourceId, membership,
                   application, targetOccurence, status, mutations, script>>
    /\ UNCHANGED updateVars

\* what a Delete handler returns once WaitForDeletion has returned
DeleteAfterWait(v) ==
    CASE v = "success" -> "ok"
      [] v = "error"   -> "ProbeError"
      [] v = "timeout" -> "ConsistencyTimeout"

\* the probe's GetMember, its deferred DisableRetries = false, and the poll's step
Delete_GetMember(p) ==
    /\ pc[p] = "d_getMember"
    /\ UNCHANGED <<expired, dataSourceVars, migrationVars, scheduleVars>>
    /\ \E o \in GetMember(objectId[p]) :
        LET dr == [disableRetries EXCEPT !["AdministrativeUnitsClient"] = FALSE]
            w == WaitForStateContext(DeletionStateChangeConf,
                                     WaitForDeletionRefresh(DeletionProbe(o)),
                                     targetOccurence[p])
        IN  /\ status' = [status EXCEPT ![p] = o]
            /\ IF w.verdict = "continue"
               THEN /\ Goto(p, "d_wait")
                    /\ disableRetries' = dr
                    /\ targetOccurence' = [targetOccurence EXCEPT ![p] = w.occ]
                    /\ UNCHANGED resourceId
               ELSE Return(p, DeleteAfterWait(w.verdict), dr, resourceId[p])
    /\ UNCHANGED <<op, objectId, memberId, membership, application,
                   mutations, script>>
    /\ UNCHANGED updateVars

\* the deadline of the context passes while the poll waits between probes
Delete_Timeout(p) ==
    /\ pc[p] = "d_wait"
    /\ UNCHANGED <<expired, dataSourceVars, migrationVars, scheduleVars>>
    /\ status' = [status EXCEPT ![p] = DeadlineExceeded]
    /\ Return(p, DeleteAfterWait("timeout"), disableRetries, resourceId[p])
    /\ UNCHANGED <<op, objectId, memberId, membership, application, mutations, script>>
    /\ UNCHANGED updateVars

(***************************************************************************)
(* ApplicationRegistrationResource.Read                                    *)
(***************************************************************************)
AppRead_Begin(p) ==
    /\ pc[p] = "done"
    /\ UNCHANGED updateVars
    /\ \E a \in ApplicationIds :
           /\ Begin(p, "ApplicationRegistrationRead", a, None, ApplicationID(a), "ar_get")
           /\ disableRetries' = [disableRetries EXCEPT !["ApplicationsClient"] = TRUE]

AppRead_Get(p) ==
    /\ pc[p] = "ar_get"
    /\ UNCHANGED <<expired, dataSourceVars, migrationVars, scheduleVars>>
    /\ \E o \in ApplicationsGet(objectId[p]) :
        /\ status' = [status EXCEPT ![p] = o]
        /\ Return(p, ReadOutcome(o).res, disableRetries,
                  IF ReadOutcome(o).gone THEN NoId ELSE resourceId[p])
    /\ UNCHANGED <<op, objectId, memberId, membership, application, mutations, script>>
    /\ UNCHANGED updateVars

(***************************************************************************)
(* ApplicationRegistrationResource.Update                                  *)
(***************************************************************************)
\* the attributes of the resource Update looks at
Attributes ==
    {"display_name", "description", "group_membership_claims", "notes",
     "requested_access_token_version", "service_management_reference",
     "sign_in_audience", "marketing_url", "privacy_statement_url", "support_url",
     "terms_of_service_url", "homepage_url", "logout_url",
     "implicit_access_token_issuance_enabled", "implicit_id_token_issuance_enabled"}

\* an Update that sends the Info block whether or not one of its URLs changed
InfoPropertiesAlways(ch) ==
    {"Info"}
    \cup (IF "marketing_url" \in ch THEN {"Info.MarketingUrl"} ELSE {})
    \cup (IF "privacy_statement_url" \in ch THEN {"Info.PrivacyStatementUrl"} ELSE {})
    \cup (IF "support_url" \in ch THEN {"Info.SupportUrl"} ELSE {})
    \cup (IF "terms_of_service_url" \in ch THEN {"Info.TermsOfServiceUrl"} ELSE {})

\* properties.Info and its fields
InfoProperties(ch) ==
    IF "marketing_url" \in ch \/ "privacy_statement_url" \in ch
       \/ "support_url" \in ch \/ "terms_of_service_url" \in ch
    THEN {"Info"}
         \cup (IF "marketing_url" \in ch THEN {"Info.MarketingUrl"} ELSE {})
         \cup (IF "privacy_statement_url" \in ch THEN {"Info.PrivacyStatementUrl"} ELSE {})
         \cup (IF "support_url" \in ch THEN {"Info.SupportUrl"} ELSE {})
         \cup (IF "terms_of_service_url" \in ch THEN {"Info.TermsOfServiceUrl"} ELSE {})
    ELSE {}

\* properties.Web, its fields and its ImplicitGrantSettings
WebProperties(ch) ==
    IF "implicit_access_token_issuance_enabled" \in ch \/ "homepage_url" \in ch
       \/ "implicit_id_token_issuance_enabled" \in ch \/ "logout_url" \in ch
    THEN {"Web"}
         \cup (IF "homepage_url" \in ch THEN {"Web.HomePageUrl"} ELSE {})
         \cup (IF "logout_url" \in ch THEN {"Web.LogoutUrl"} ELSE {})
         \cup (IF "implicit_access_token_issuance_enabled" \in ch
                  \/ "implicit_id_token_issuance_enabled" \in ch
               THEN {"Web.ImplicitGrantSettings"}
                    \cup (IF "implicit_access_token_issuance_enabled" \in ch
                          THEN {"Web.ImplicitGrantSettings.EnableAccessTokenIssuance"}
                          ELSE {})
                    \cup (IF "implicit_id_token_issuance_enabled" \in ch
                          THEN {"Web.ImplicitGrantSettings.EnableIdTokenIssuance"}
                          ELSE {})
               ELSE {})
    ELSE {}

\* the msgraph.Application Update builds, as the set of its fields that are set,
\* from the attributes ch for which rd.HasChange is true
UpdateProperties(ch) ==
    {"Id"}
    \cup (IF "display_name" \in ch THEN {"DisplayName"} ELSE {})
    \cup (IF "description" \in ch THEN {"Description"} ELSE {})
    \cup (IF "group_membership_claims" \in ch THEN {"GroupMembershipClaims"} ELSE {})
    \cup (IF "notes" \in ch THEN {"Notes"} ELSE {})
    \cup (IF "requested_access_token_version" \in ch
          THEN {"Api", "Api.RequestedAccessTokenVersion"} ELSE {})
    \cup (IF "service_management_reference" \in ch THEN {"ServiceManagementReference"} ELSE {})
    \cup (IF "sign_in_audience" \in ch THEN {"SignInAudience"} ELSE {})
    \cup InfoProperties(ch)
    \cup WebProperties(ch)

\* the change sets an Update may be called with
ChangeSets == IF inputs = "all" THEN SUBSET Attributes ELSE {{"display_name"}}

AppUpdate_Begin(p) ==
    /\ pc[p] = "done"
    /\ \E a \in ApplicationIds, ch \in ChangeSets :
        /\ Begin(p, "ApplicationRegistrationUpdate", a, None, ApplicationID(a), "u_lock")
        /\ changed' = [changed EXCEPT ![p] = ch]
        /\ UNCHANGED <<disableRetries, inputs, properties>>

\* LockByName, then the properties are built from the changed attributes
AppUpdate_LockByName(p) ==
    /\ pc[p] = "u_lock"
    /\ UNCHANGED <<expired, dataSourceVars, migrationVars, scheduleVars>>
    /\ LockFree(UpdateLockKey(p))
    /\ holder' = LockByName(p, UpdateLockKey(p))
    /\ pc' = [pc EXCEPT ![p] = "u_update"]
    /\ properties' = [properties EXCEPT ![p] = UpdateProperties(changed[p])]
    /\ UNCHANGED <<op, objectId, memberId, resourceId, result, disableRetries,
                   membership, application, targetOccurence, status, mutations,
                   script, inputs, changed>>

\* client.Update(ctx, properties)
AppUpdate_Update(p) ==
    /\ pc[p] = "u_update"
    /\ UNCHANGED <<expired, dataSourceVars, migrationVars, scheduleVars>>
    /\ \E o \in WithContext(p, {OK, Error}) :
        /\ Return(p, IF o = OK THEN "ok" ELSE "RemoteError", disableRetries, resourceId[p])
        /\ mutations' = [mutations EXCEPT ![p] = IF o = OK THEN @ + 1 ELSE @]
    /\ changed' = [changed EXCEPT ![p] = {}]
    /\ properties' = [properties EXCEPT ![p] = {}]
    /\ UNCHANGED <<op, objectId, memberId, membership, application,
                   status, script, inputs>>

(***************************************************************************)
(* ApplicationRegistrationResource.Delete                                  *)
(***************************************************************************)
AppDelete_Begin(p) ==
    /\ pc[p] = "done"
    /\ UNCHANGED updateVars
    /\ \E a \in ApplicationIds :
           /\ Begin(p, "ApplicationRegistrationDelete", a, None, ApplicationID(a), "ad_delete")
           /\ disableRetries' = [disableRetries EXCEPT !["ApplicationsClient"] = TRUE]

AppDelete_Delete(p) ==
    /\ pc[p] = "ad_delete"
    /\ UNCHANGED <<expired, dataSourceVars, migrationVars, scheduleVars>>
    /\ \E o \in ApplicationsDelete(objectId[p]) :
        /\ status' = [status EXCEPT ![p] = o]
        /\ IF DeleteOutcome(o) = "wait"
           THEN /\ Goto(p, "ad_wait")
                /\ application' = [application EXCEPT ![objectId[p]] = "removed"]
                /\ mutations' = [mutations EXCEPT ![p] = @ + 1]
                /\ UNCHANGED <<disableRetries, resourceId, targetOccurence>>
           ELSE /\ Return(p, DeleteOutcome(o), disableRetries, resourceId[p])
                /\ UNCHANGED <<application, mutations>>
    /\ UNCHANGED <<op, objectId, memberId, membership, script>>
    /\ UNCHANGED updateVars

AppDelete_Probe(p) ==
    /\ pc[p] = "ad_wait"
    /\ UNCHANGED <<expired, dataSourceVars, migrationVars, scheduleVars>>
    /\ Goto(p, "ad_get")
    /\ disableRetries' = [disableRetries EXCEPT !["ApplicationsClient"] = TRUE]
    /\ UNCHANGED <<op, objectId, memberId, resourceId, membership,
                   application, targetOccurence, status, mutations, script>>
    /\ UNCHANGED updateVars

AppDelete_Get(p) ==
    /\ pc[p] = "ad_get"
    /\ UNCHANGED <<expired, dataSourceVars, migrationVars, scheduleVars>>
    /\ \E o \in ApplicationsGet(objectId[p]) :
        LET dr == [disableRetries EXCEPT !["ApplicationsClient"] = FALSE]
            w == WaitForStateContext(DeletionStateChangeConf,
                                     WaitForDeletionRefresh(DeletionProbe(o)),
                                     targetOccurence[p])
        IN  /\ status' = [status EXCEPT ![p] = o]
            /\ IF w.verdict = "continue"
               THEN /\ Goto(p, "ad_wait")
                    /\ disableRetries' = dr
                    /\ targetOccurence' = [targetOccurence EXCEPT ![p] = w.occ]
                    /\ UNCHANGED resourceId
               ELSE Return(p, DeleteAfterWait(w.verdict), dr, resourceId[p])
    /\ UNCHANGED <<op, objectId, memberId, membership, application,
                   mutations, script>>
    /\ UNCHANGED updateVars

AppDelete_Timeout(p) ==
    /\ pc[p] = "ad_wait"
    /\ UNCHANGED <<expired, dataSourceVars, migrationVars, scheduleVars>>
    /\ status' = [status EXCEPT ![p] = DeadlineExceeded]
    /\ Return(p, DeleteAfterWait("timeout"), disableRetries, resourceId[p])
    /\ UNCHANGED <<op, objectId, memberId, membership, application, mutations, script>>
    /\ UNCHANGED updateVars

(***************************************************************************)
(* The caller's deadline                                                   *)
(***************************************************************************)
\* the deadline of the context passes while the task is blocked in LockByName,
\* which takes no context: the task goes on waiting
LockByName_DeadlineExpires(p) ==
    /\ pc[p] \in {"c_lock", "d_lock", "u_lock"}
    /\ ~LockFree(LockKeyOf(p))
    /\ ~expired[p]
    /\ expired' = [expired EXCEPT ![p] = TRUE]
    /\ UNCHANGED <<pc, op, objectId, memberId, resourceId, result, holder,
                   disableRetries, membership, application, targetOccurence,
                   status, mutations, script>>
    /\ UNCHANGED <<updateVars, dataSourceVars, migrationVars, scheduleVars>>

(***************************************************************************)
(* The concurrent system                                                   *)
(***************************************************************************)
Next ==
    \E p \in Procs :
        \/ Create_Begin(p) \/ Create_LockByName(p) \/ Create_Get(p)
        \/ Create_GetMember(p) \/ Create_AddMembers(p) \/ Create_Refresh(p)
        \/ Create_Timeout(p) \/ Create_Read(p)
        \/ Read_Begin(p) \/ Read_GetMember(p)
        \/ Delete_Begin(p) \/ Delete_LockByName(p) \/ Delete_RemoveMembers(p)
        \/ Delete_Probe(p) \/ Delete_GetMember(p) \/ Delete_Timeout(p)
        \/ AppRead_Begin(p) \/ AppRead_Get(p)
        \/ AppUpdate_Begin(p) \/ AppUpdate_LockByName(p) \/ AppUpdate_Update(p)
        \/ AppDelete_Begin(p) \/ AppDelete_Delete(p) \/ AppDelete_Probe(p)
        \/ AppDelete_Get(p) \/ AppDelete_Timeout(p)
        \/ LockByName_DeadlineExpires(p)

Spec == Init /\ [][Next]_vars

(***************************************************************************)
(* One Update, called with every possible set of changed attributes        *)
(***************************************************************************)
InitUpdate ==
    /\ pc = [p \in Procs |-> "done"]
    /\ op = [p \in Procs |-> None]
    /\ objectId = [p \in Procs |-> None]
    /\ memberId = [p \in Procs |-> None]
    /\ resourceId = [p \in Procs |-> NoId]
    /\ result = [p \in Procs |-> None]
    /\ holder = [k \in LockKeys |-> None]
    /\ disableRetries = [c \in Clients |-> FALSE]
    /\ membership = [au \in AdministrativeUnitIds |-> "never"]
    /\ application = [a \in ApplicationIds |-> "present"]
    /\ targetOccurence = [p \in Procs |-> 0]
    /\ status = [p \in Procs |-> None]
    /\ mutations = [p \in Procs |-> 0]
    /\ script = [p \in Procs |-> 0]
    /\ expired = [p \in Procs |-> FALSE]
    /\ given = [p \in Procs |-> {}]
    /\ rawStateIn = <<>>
    /\ rawState = <<>>
    /\ upgradeErr = None
    /\ upgrades = <<>>
    /\ lookup = [p \in Procs |-> None]
    /\ managerId = [p \in Procs |-> None]
    /\ modelStatus = [p \in Procs |-> None]
    /\ calls = [p \in Procs |-> <<>>]
    /\ populatedFrom = [p \in Procs |-> None]
    /\ requests = [p \in Procs |-> [err |-> None, list |-> <<>>]]
    /\ changed = [p \in Procs |-> {}]
    /\ properties = [p \in Procs |-> {}]
    /\ inputs = "all"

NextUpdate ==
    \/ AppUpdate_Begin("t1") \/ AppUpdate_LockByName("t1") \/ AppUpdate_Update("t1")

SpecUpdate == InitUpdate /\ [][NextUpdate]_vars

(***************************************************************************)
(* userDataSourceRead                                                      *)
(***************************************************************************)
UserIds == {"u1"}
ManagerIds == {"mgr1"}

\* the attributes a user can be looked up by
LookupAttributes ==
    {"user_principal_name", "object_id", "mail", "mail_nickname", "employee_id"}

\* a chain that tries object_id before user_principal_name
ChosenLookupObjectIdFirst(g) ==
    IF "object_id" \in g THEN "object_id"
    ELSE IF "user_principal_name" \in g THEN "user_principal_name"
    ELSE IF "mail" \in g THEN "mail"
    ELSE IF "mail_nickname" \in g THEN "mail_nickname"
    ELSE IF "employee_id" \in g THEN "employee_id"
    ELSE None

\* the lookup the else-if chain takes for the attributes that are set
ChosenLookup(g) ==
    IF "user_principal_name" \in g THEN "user_principal_name"
    ELSE IF "object_id" \in g THEN "object_id"
    ELSE IF "mail" \in g THEN "mail"
    ELSE IF "mail_nickname" \in g THEN "mail_nickname"
    ELSE IF "employee_id" \in g THEN "employee_id"
    ELSE None

\* the remote call of each lookup: client.Get by object ID, client.List with a
\* filter on one attribute
LookupCall(l) ==
    CASE l = "user_principal_name" -> "List userPrincipalName"
      [] l = "object_id"           -> "Get"
      [] l = "mail"                -> "List mail"
      [] l = "mail_nickname"       -> "List mailNickname"
      [] l = "employee_id"         -> "List employeeId"

\* what the remote can answer to the lookup: client.Get for object_id (error
\* with or without 404, a nil user, a user), client.List for the others (error,
\* nil, no user, one user, several users)
FindAnswers(l) ==
    IF l = None THEN {None}
    ELSE IF l = "object_id" THEN {Error, NotFound, "nil", "one"}
    ELSE {Error, "nil", "none", "one", "many"}

\* what userDataSourceRead does with the answer to its lookup
FindUser(l, a) ==
    IF l = None THEN "NoLookupAttribute"
    ELSE IF l = "object_id"
    THEN CASE a = NotFound -> "UserNotFound"
           [] a = Error    -> "RemoteError"
           [] a = "nil"    -> "UserNotFound"
           [] a = "one"    -> "proceed"
    ELSE CASE a = Error  -> "RemoteError"
           [] a = "nil"  -> "BadResponse"
           [] a = "many" -> "MoreThanOne"
           [] a = "none" -> "UserNotFound"
           [] a = "one"  -> "proceed"

\* what userDataSourceRead does with the answer of client.GetManager: the status
\* o and the manager object ("nil", "noId" or a manager ID)
ManagerOutcome(o, manager) ==
    IF o # NotFound
    THEN IF o = Error
         THEN [res |-> "RemoteError", managerId |-> None]
         ELSE [res |-> "ok",
               managerId |-> IF manager \in ManagerIds THEN manager ELSE ""]
    ELSE [res |-> "ok", managerId |-> ""]

\* the handler returns res: the deferred DisableRetries = false runs
User_Return(p, res) ==
    /\ pc' = [pc EXCEPT ![p] = "done"]
    /\ result' = [result EXCEPT ![p] = res]
    /\ disableRetries' = [disableRetries EXCEPT !["UsersClient"] = FALSE]

User_Begin(p) ==
    /\ pc[p] = "done"
    /\ \E g \in SUBSET LookupAttributes :
        /\ given' = [given EXCEPT ![p] = g]
        /\ lookup' = [lookup EXCEPT ![p] = ChosenLookup(g)]
    /\ calls' = [calls EXCEPT ![p] = <<>>]
    /\ pc' = [pc EXCEPT ![p] = "ds_find"]
    /\ op' = [op EXCEPT ![p] = "userDataSourceRead"]
    /\ resourceId' = [resourceId EXCEPT ![p] = NoId]
    /\ result' = [result EXCEPT ![p] = None]
    /\ status' = [status EXCEPT ![p] = None]
    /\ managerId' = [managerId EXCEPT ![p] = None]
    /\ disableRetries' = [disableRetries EXCEPT !["UsersClient"] = TRUE]
    /\ UNCHANGED <<resourceVars, updateVars, migrationVars, modelStatus, populatedFrom, requests>>

\* the lookup of the user, the check of its ID and d.SetId
User_Find(p) ==
    /\ pc[p] = "ds_find"
    /\ \E a \in FindAnswers(lookup[p]), idIsNil \in BOOLEAN :
        /\ status' = [status EXCEPT ![p] = a]
        /\ calls' = [calls EXCEPT ![p] =
                        IF lookup[p] = None THEN @ ELSE Append(@, LookupCall(lookup[p]))]
        /\ IF FindUser(lookup[p], a) # "proceed"
           THEN User_Return(p, FindUser(lookup[p], a)) /\ UNCHANGED resourceId
           ELSE IF idIsNil
           THEN User_Return(p, "BadResponse") /\ UNCHANGED resourceId
           ELSE /\ pc' = [pc EXCEPT ![p] = "ds_getManager"]
                /\ \E u \in UserIds : resourceId' = [resourceId EXCEPT ![p] = <<u>>]
                /\ UNCHANGED <<result, disableRetries>>
    /\ UNCHANGED <<op, given, lookup, managerId, resourceVars, updateVars, migrationVars,
                   modelStatus, populatedFrom, requests>>

\* client.GetManager and tf.Set of manager_id
User_GetManager(p) ==
    /\ pc[p] = "ds_getManager"
    /\ \E o \in {OK, NotFound, Error}, manager \in {"nil", "noId"} \cup ManagerIds :
        /\ status' = [status EXCEPT ![p] = o]
        /\ User_Return(p, ManagerOutcome(o, manager).res)
        /\ managerId' = [managerId EXCEPT ![p] = ManagerOutcome(o, manager).managerId]
    /\ calls' = [calls EXCEPT ![p] = Append(@, "GetManager")]
    /\ UNCHANGED <<op, given, lookup, resourceId, resourceVars, updateVars, migrationVars,
                   modelStatus, populatedFrom, requests>>

NextUser ==
    \E p \in Procs : User_Begin(p) \/ User_Find(p) \/ User_GetManager(p)

SpecUser == Init /\ [][NextUser]_vars

(***************************************************************************)
(* Privileged access group schedule resources                              *)
(***************************************************************************)
ScheduleIds == {"s1"}
RequestIds == {"r1", "r2"}

\* the values of the status of a schedule or a schedule request; "Other" stands
\* for any value the handlers do not name
CancelableStatuses ==
    {"Denied", "Failed", "Granted", "PendingAdminDecision", "PendingApproval",
     "PendingProvisioning", "PendingScheduledCreation"}
RevocableStatuses == {"Provisioned", "ScheduleCreated"}
EndedStatuses == {"Canceled", "Revoked"}
StatusValues == CancelableStatuses \cup RevocableStatuses \cup EndedStatuses \cup {"Other"}

\* what requestsClient.List can answer: an error, a nil result, or the requests
\* that match the filter, newest first
ScheduleRequests == [id : RequestIds, status : StatusValues]
ListAnswers ==
    {[err |-> Error, list |-> <<>>], [err |-> "nil", list |-> <<>>],
     [err |-> OK, list |-> <<>>]}
    \cup {[err |-> OK, list |-> <<r>>] : r \in ScheduleRequests}
    \cup {[err |-> OK, list |-> <<x[1], x[2]>>] :
            x \in {y \in ScheduleRequests \X ScheduleRequests : y[1].id # y[2].id}}

\* the handler returns res with the resource ID rid
Schedule_Return(p, res, rid) ==
    /\ pc' = [pc EXCEPT ![p] = "done"]
    /\ result' = [result EXCEPT ![p] = res]
    /\ resourceId' = [resourceId EXCEPT ![p] = rid]

\* a task takes up a schedule operation on a resource with ID rid and status st
\* in its model
Schedule_Begin(p, o, rid, st, first) ==
    /\ pc[p] = "done"
    /\ pc' = [pc EXCEPT ![p] = first]
    /\ op' = [op EXCEPT ![p] = o]
    /\ resourceId' = [resourceId EXCEPT ![p] = rid]
    /\ modelStatus' = [modelStatus EXCEPT ![p] = st]
    /\ result' = [result EXCEPT ![p] = None]
    /\ status' = [status EXCEPT ![p] = None]
    /\ calls' = [calls EXCEPT ![p] = <<>>]
    /\ populatedFrom' = [populatedFrom EXCEPT ![p] = None]
    /\ requests' = [requests EXCEPT ![p] = [err |-> None, list |-> <<>>]]
    /\ UNCHANGED <<disableRetries, resourceVars, updateVars, dataSourceVars, migrationVars>>

\* what is left alone by a step of a schedule handler that does not read requests
ScheduleFrame == <<op, disableRetries, resourceVars, updateVars, dataSourceVars, migrationVars>>

\* the answer of client.Create as the handler receives it: the error and, when
\* there is none, the request with its ID and status
CreateAnswer(o, reqId, reqStatus) ==
    IF o # OK THEN [err |-> o, list |-> <<>>]
    ELSE [err |-> OK, list |-> <<[id |-> reqId, status |-> reqStatus]>>]

\* a Create that does not look at the status of the request it is returned
ScheduleCreateOutcomeIgnoresFailed(o, reqId, reqStatus) ==
    IF o # OK THEN "RemoteError"
    ELSE IF reqId = "" THEN "EmptyID"
    ELSE "proceed"

\* what Create and Update do with the answer of client.Create: the error, the
\* request ID and the status of the request
ScheduleCreateOutcome(o, reqId, reqStatus) ==
    IF o # OK THEN "RemoteError"
    ELSE IF reqId = "" THEN "EmptyID"
    ELSE IF reqStatus = "Failed" THEN "FailedState"
    ELSE "proceed"

(***************************************************************************)
(* PrivilegedAccessGroupAssignmentScheduleResource                         *)
(***************************************************************************)
AssignmentCreate_Begin(p) ==
    /\ pc[p] = "done"
    /\ Schedule_Begin(p, "PrivilegedAccessGroupAssignmentScheduleCreate", NoId, None,
                       "asc_create")

\* client.Create with action adminAssign, the checks of the request it returns,
\* and SetID with the parsed target schedule ID
AssignmentCreate_Create(p) ==
    /\ pc[p] = "asc_create"
    /\ \E o \in {OK, Error}, reqId \in {""} \cup RequestIds, reqStatus \in StatusValues,
          target \in ScheduleIds \cup {"invalid"} :
        /\ status' = [status EXCEPT ![p] = o]
        /\ requests' = [requests EXCEPT ![p] = CreateAnswer(o, reqId, reqStatus)]
        /\ IF ScheduleCreateOutcome(o, reqId, reqStatus) # "proceed"
           THEN Schedule_Return(p, ScheduleCreateOutcome(o, reqId, reqStatus), resourceId[p])
           ELSE IF target \notin ScheduleIds
           THEN Schedule_Return(p, "InvalidID", resourceId[p])
           ELSE Schedule_Return(p, "ok", <<target>>)
    /\ calls' = [calls EXCEPT ![p] = Append(@, "adminAssign")]
    /\ UNCHANGED <<modelStatus, populatedFrom, ScheduleFrame>>

AssignmentRead_Begin(p) ==
    /\ pc[p] = "done"
    /\ \E sid \in ScheduleIds, st \in StatusValues :
            Schedule_Begin(p, "PrivilegedAccessGroupAssignmentScheduleRead", <<sid>>, st,
                           "asr_get")

\* scheduleClient.Get
AssignmentRead_Get(p) ==
    /\ pc[p] = "asr_get"
    /\ \E o \in {OK, NotFound, Error} :
        /\ status' = [status EXCEPT ![p] = o]
        /\ IF o = Error
           THEN Schedule_Return(p, "RemoteError", resourceId[p])
           ELSE /\ pc' = [pc EXCEPT ![p] = "asr_list"]
                /\ UNCHANGED <<result, resourceId>>
    /\ UNCHANGED <<scheduleVars, ScheduleFrame>>

\* a Read that marks the resource gone whenever the schedule fetch is 404
AssignmentReadGoneOn404(l, scheduleStatus, scheduleValue, rid, st) ==
    IF l.err = Error
    THEN [res |-> "RemoteError", rid |-> rid, from |-> None, st |-> st]
    ELSE IF scheduleStatus = NotFound
    THEN [res |-> "ok", rid |-> NoId, from |-> None, st |-> st]
    ELSE IF l.err = "nil" \/ Len(l.list) = 0
    THEN [res |-> "ok", rid |-> rid, from |-> "schedule", st |-> scheduleValue]
    ELSE [res |-> "ok", rid |-> rid, from |-> "request", st |-> l.list[1].status]

\* what the assignment schedule Read does with the answer l of requestsClient.List
\* when the schedule fetch answered scheduleStatus and, if it found the schedule,
\* the schedule has status scheduleValue; rid and st are the stored ID and status
AssignmentRead(l, scheduleStatus, scheduleValue, rid, st) ==
    IF l.err = Error
    THEN [res |-> "RemoteError", rid |-> rid, from |-> None, st |-> st]
    ELSE IF l.err = "nil" \/ Len(l.list) = 0
    THEN IF scheduleStatus = NotFound
         THEN [res |-> "ok", rid |-> NoId, from |-> None, st |-> st]
         ELSE [res |-> "ok", rid |-> rid, from |-> "schedule", st |-> scheduleValue]
    ELSE [res |-> "ok", rid |-> rid, from |-> "request", st |-> l.list[1].status]

\* requestsClient.List and the population of the model
AssignmentRead_List(p) ==
    /\ pc[p] = "asr_list"
    /\ \E l \in ListAnswers, scheduleValue \in StatusValues :
        LET r == AssignmentRead(l, status[p], scheduleValue, resourceId[p], modelStatus[p])
        IN  /\ requests' = [requests EXCEPT ![p] = l]
            /\ Schedule_Return(p, r.res, r.rid)
            /\ populatedFrom' = [populatedFrom EXCEPT ![p] = r.from]
            /\ modelStatus' = [modelStatus EXCEPT ![p] = r.st]
    /\ UNCHANGED <<status, calls, ScheduleFrame>>

AssignmentUpdate_Begin(p) ==
    /\ pc[p] = "done"
    /\ \E sid \in ScheduleIds, st \in StatusValues :
            Schedule_Begin(p, "PrivilegedAccessGroupAssignmentScheduleUpdate", <<sid>>, st,
                           "asu_create")

\* client.Create with action adminAssign and the checks of the request it returns
AssignmentUpdate_Create(p) ==
    /\ pc[p] = "asu_create"
    /\ \E o \in {OK, Error}, reqId \in {""} \cup RequestIds, reqStatus \in StatusValues :
        /\ status' = [status EXCEPT ![p] = o]
        /\ IF ScheduleCreateOutcome(o, reqId, reqStatus) # "proceed"
           THEN Schedule_Return(p, ScheduleCreateOutcome(o, reqId, reqStatus), resourceId[p])
           ELSE Schedule_Return(p, "ok", resourceId[p])
    /\ calls' = [calls EXCEPT ![p] = Append(@, "adminAssign")]
    /\ UNCHANGED <<modelStatus, populatedFrom, requests, ScheduleFrame>>

AssignmentDelete_Begin(p) ==
    /\ pc[p] = "done"
    /\ \E sid \in ScheduleIds, st \in StatusValues :
            Schedule_Begin(p, "PrivilegedAccessGroupAssignmentScheduleDelete", <<sid>>, st,
                           "asd_delete")

\* a Delete that cancels whatever the stored status is
AssignmentDeleteActionAlwaysCancel(st) == "cancel"

\* the switch of Delete on model.Status
AssignmentDeleteAction(st) ==
    IF st \in {"Denied", "Failed", "Granted", "PendingAdminDecision", "PendingApproval",
               "PendingProvisioning", "PendingScheduledCreation"}
    THEN "cancel"
    ELSE IF st \in {"Provisioned", "ScheduleCreated"} THEN "revoke"
    ELSE IF st \in {"Canceled", "Revoked"} THEN "gone"
    ELSE "UnknownStatus"

\* what cancelAssignmentRequest does with the answer of client.Cancel
cancelAssignmentRequest(o) ==
    CASE o = NotFound -> [res |-> "ok", gone |-> TRUE]
      [] o = Error    -> [res |-> "RemoteError", gone |-> FALSE]
      [] o = OK       -> [res |-> "ok", gone |-> FALSE]

\* what revokeAssignmentRequest does with the answer of client.Create
revokeAssignmentRequest(o, resultIsNil) ==
    CASE o = NotFound -> [res |-> "ok", gone |-> TRUE]
      [] o = Error    -> [res |-> "RemoteError", gone |-> FALSE]
      [] o = OK       -> IF resultIsNil THEN [res |-> "NilResult", gone |-> FALSE]
                                        ELSE [res |-> "ok", gone |-> FALSE]

\* the switch on the stored status and the call it leads to
AssignmentDelete_Delete(p) ==
    /\ pc[p] = "asd_delete"
    /\ LET a == AssignmentDeleteAction(modelStatus[p])
       IN  \E o \in {OK, NotFound, Error}, resultIsNil \in BOOLEAN :
            LET r == IF a = "cancel" THEN cancelAssignmentRequest(o)
                     ELSE revokeAssignmentRequest(o, resultIsNil)
            IN  IF a \in {"cancel", "revoke"}
                THEN /\ calls' = [calls EXCEPT ![p] =
                            Append(@, IF a = "cancel" THEN "Cancel" ELSE "adminRemove")]
                     /\ status' = [status EXCEPT ![p] = o]
                     /\ Schedule_Return(p, r.res, IF r.gone THEN NoId ELSE resourceId[p])
                ELSE /\ UNCHANGED <<calls, status>>
                     /\ IF a = "gone"
                        THEN Schedule_Return(p, "ok", NoId)
                        ELSE Schedule_Return(p, "UnknownStatus", resourceId[p])
    /\ UNCHANGED <<modelStatus, populatedFrom, requests, ScheduleFrame>>

(***************************************************************************)
(* PrivilegedAccessGroupEligibilityScheduleRequestResource                 *)
(***************************************************************************)
EligibilityCreate_Begin(p) ==
    /\ pc[p] = "done"
    /\ Schedule_Begin(p, "PrivilegedAccessGroupEligibilityScheduleRequestCreate", NoId, None,
                       "esc_create")

\* client.Create with action adminAssign, the checks of the request it returns,
\* and SetID with the request ID
EligibilityCreate_Create(p) ==
    /\ pc[p] = "esc_create"
    /\ \E o \in {OK, Error}, reqId \in {""} \cup RequestIds, reqStatus \in StatusValues :
        /\ status' = [status EXCEPT ![p] = o]
        /\ requests' = [requests EXCEPT ![p] = CreateAnswer(o, reqId, reqStatus)]
        /\ IF ScheduleCreateOutcome(o, reqId, reqStatus) # "proceed"
           THEN Schedule_Return(p, ScheduleCreateOutcome(o, reqId, reqStatus), resourceId[p])
           ELSE Schedule_Return(p, "ok", <<reqId>>)
    /\ calls' = [calls EXCEPT ![p] = Append(@, "adminAssign")]
    /\ UNCHANGED <<modelStatus, populatedFrom, ScheduleFrame>>

EligibilityRead_Begin(p) ==
    /\ pc[p] = "done"
    /\ \E rid \in RequestIds, st \in StatusValues :
            Schedule_Begin(p, "PrivilegedAccessGroupEligibilityScheduleRequestRead", <<rid>>, st,
                           "esr_list")

\* a Read that populates the model from the newest request whatever its status
EligibilityReadAnyStatus(l, rid, st) ==
    IF l.err = Error
    THEN [res |-> "RemoteError", rid |-> rid, from |-> None, st |-> st]
    ELSE IF l.err = "nil"
    THEN [res |-> "Panic", rid |-> rid, from |-> None, st |-> st]
    ELSE IF Len(l.list) = 0
    THEN [res |-> "ok", rid |-> NoId, from |-> None, st |-> st]
    ELSE [res |-> "ok", rid |-> <<l.list[1].id>>, from |-> "request",
          st |-> l.list[1].status]

\* what the eligibility schedule request Read does with the answer l of
\* client.List; rid and st are the stored ID and status.  A nil result is
\* dereferenced.
EligibilityRead(l, rid, st) ==
    IF l.err = Error
    THEN [res |-> "RemoteError", rid |-> rid, from |-> None, st |-> st]
    ELSE IF l.err = "nil"
    THEN [res |-> "Panic", rid |-> rid, from |-> None, st |-> st]
    ELSE IF Len(l.list) = 0
    THEN [res |-> "ok", rid |-> NoId, from |-> None, st |-> st]
    ELSE IF l.list[1].status \in {"Canceled", "Revoked"}
    THEN [res |-> "ok", rid |-> NoId, from |-> None, st |-> st]
    ELSE [res |-> "ok",
          rid |-> IF <<l.list[1].id>> # rid THEN <<l.list[1].id>> ELSE rid,
          from |-> "request",
          st |-> l.list[1].status]

\* client.List and the population of the model
EligibilityRead_List(p) ==
    /\ pc[p] = "esr_list"
    /\ \E l \in ListAnswers :
        LET r == EligibilityRead(l, resourceId[p], modelStatus[p])
        IN  /\ requests' = [requests EXCEPT ![p] = l]
            /\ Schedule_Return(p, r.res, r.rid)
            /\ populatedFrom' = [populatedFrom EXCEPT ![p] = r.from]
            /\ modelStatus' = [modelStatus EXCEPT ![p] = r.st]
    /\ UNCHANGED <<status, calls, ScheduleFrame>>

EligibilityDelete_Begin(p) ==
    /\ pc[p] = "done"
    /\ \E rid \in RequestIds, st \in StatusValues :
            Schedule_Begin(p, "PrivilegedAccessGroupEligibilityScheduleRequestDelete", <<rid>>, st,
                           "esd_delete")

\* the switch of Delete on model.Status
EligibilityDeleteAction(st) ==
    CASE st = "Denied" -> "cancel"
      [] st = "Failed" -> "cancel"
      [] st = "Granted" -> "cancel"
      [] st = "PendingAdminDecision" -> "cancel"
      [] st = "PendingApproval" -> "cancel"
      [] st = "PendingProvisioning" -> "cancel"
      [] st = "PendingScheduledCreation" -> "cancel"
      [] st = "Provisioned" -> "revoke"
      [] st = "ScheduleCreated" -> "revoke"
      [] st = "Canceled" -> "gone"
      [] st = "Revoked" -> "gone"
      [] OTHER -> "UnknownStatus"

\* a cancel that returns the 404 of client.Cancel as an error
cancelEligibilityRequestFailsOn404(o) ==
    CASE o = NotFound -> [res |-> "RemoteError", gone |-> FALSE]
      [] o = Error    -> [res |-> "RemoteError", gone |-> FALSE]
      [] o = OK       -> [res |-> "ok", gone |-> TRUE]

\* what cancelEligibilityRequest does with the answer of client.Cancel
cancelEligibilityRequest(o) ==
    CASE o = NotFound -> [res |-> "ok", gone |-> TRUE]
      [] o = Error    -> [res |-> "RemoteError", gone |-> FALSE]
      [] o = OK       -> [res |-> "ok", gone |-> TRUE]

\* what revokeEligibilityRequest does with the answer of client.Create
revokeEligibilityRequest(o, resultIsNil) ==
    CASE o = NotFound -> [res |-> "ok", gone |-> TRUE]
      [] o = Error    -> [res |-> "RemoteError", gone |-> FALSE]
      [] o = OK       -> IF resultIsNil THEN [res |-> "NilResult", gone |-> FALSE]
                                        ELSE [res |-> "ok", gone |-> TRUE]

\* the switch on the stored status and the call it leads to
EligibilityDelete_Delete(p) ==
    /\ pc[p] = "esd_delete"
    /\ LET a == EligibilityDeleteAction(modelStatus[p])
       IN  \E o \in {OK, NotFound, Error}, resultIsNil \in BOOLEAN :
            LET r == IF a = "cancel" THEN cancelEligibilityRequest(o)
                     ELSE revokeEligibilityRequest(o, resultIsNil)
            IN  IF a \in {"cancel", "revoke"}
                THEN /\ calls' = [calls EXCEPT ![p] =
                            Append(@, IF a = "cancel" THEN "Cancel" ELSE "adminRemove")]
                     /\ status' = [status EXCEPT ![p] = o]
                     /\ Schedule_Return(p, r.res, IF r.gone THEN NoId ELSE resourceId[p])
                ELSE /\ UNCHANGED <<calls, status>>
                     /\ IF a = "gone"
                        THEN Schedule_Return(p, "ok", NoId)
                        ELSE Schedule_Return(p, "UnknownStatus", resourceId[p])
    /\ UNCHANGED <<modelStatus, populatedFrom, requests, ScheduleFrame>>

\* the schedule resources, one operation after the other
NextSchedule ==
    \/ AssignmentCreate_Begin("t1") \/ AssignmentCreate_Create("t1")
    \/ AssignmentRead_Begin("t1") \/ AssignmentRead_Get("t1") \/ AssignmentRead_List("t1")
    \/ AssignmentUpdate_Begin("t1") \/ AssignmentUpdate_Create("t1")
    \/ AssignmentDelete_Begin("t1") \/ AssignmentDelete_Delete("t1")
    \/ EligibilityCreate_Begin("t1") \/ EligibilityCreate_Create("t1")
    \/ EligibilityRead_Begin("t1") \/ EligibilityRead_List("t1")
    \/ EligibilityDelete_Begin("t1") \/ EligibilityDelete_Delete("t1")

SpecSchedule == Init /\ [][NextSchedule]_vars

(***************************************************************************)
(* Two administrativeUnitMemberResourceCreate operations for one           *)
(* (administrative unit, member) pair, each task running one of them, in   *)
(* a directory where a membership that a visibility poll has seen on three *)
(* consecutive probes stays visible to every later probe.                  *)
(***************************************************************************)
\* a visibility poll on administrative unit au has ended with three consecutive
\* sightings of the membership: its Create has set the resource ID
ObservedPresent(au) ==
    \E q \in Procs :
        /\ op[q] = "administrativeUnitMemberResourceCreate"
        /\ objectId[q] = au
        /\ resourceId[q] # NoId

\* the step of task p is not a GetMember that misses a membership observed present
StaysVisible(p) ==
    ~ /\ pc[p] \in {"c_getMember", "c_wait", "c_read"}
      /\ ObservedPresent(objectId[p])
      /\ status'[p] = NotFound

ConcurrentCreate_Begin(p) ==
    /\ op[p] = None
    /\ Create_Begin(p)
    /\ objectId'[p] = "au1"

\* the three steps of Create that probe the membership, in such a directory
ConcurrentCreate_GetMember(p) ==
    /\ pc[p] = "c_getMember"
    /\ Create_GetMember(p)
    /\ StaysVisible(p)

ConcurrentCreate_Refresh(p) ==
    /\ pc[p] = "c_wait"
    /\ Create_Refresh(p)
    /\ StaysVisible(p)

ConcurrentCreate_Read(p) ==
    /\ pc[p] = "c_read"
    /\ Create_Read(p)
    /\ StaysVisible(p)

NextConcurrentCreate ==
    \E p \in Procs :
        \/ ConcurrentCreate_Begin(p) \/ Create_LockByName(p) \/ Create_Get(p)
        \/ ConcurrentCreate_GetMember(p) \/ Create_AddMembers(p)
        \/ ConcurrentCreate_Refresh(p) \/ Create_Timeout(p)
        \/ ConcurrentCreate_Read(p)
        \/ LockByName_DeadlineExpires(p)

SpecConcurrentCreate == Init /\ [][NextConcurrentCreate]_vars

(***************************************************************************)
(* Two tracked eligibility schedule requests of one principal in one       *)
(* group: task t1 is the resource with assignment_type member, created     *)
(* with request r1, task t2 the one with assignment_type owner, created    *)
(* later with request r2.  client.List filters on groupId and principalId  *)
(* only, so it answers both Reads with both requests, newest first.        *)
(***************************************************************************)
PairRequestId == [t1 |-> "r1", t2 |-> "r2"]

\* the statuses the two requests go through: approved, provisioned, ended
PairStatuses == {"Granted", "Provisioned", "Canceled", "Revoked"}

\* what client.List answers for the group and the principal of the pair
PairListAnswers ==
    {[err |-> OK, list |-> <<[id |-> PairRequestId["t2"], status |-> s2],
                             [id |-> PairRequestId["t1"], status |-> s1]>>] :
        s1 \in PairStatuses, s2 \in PairStatuses}

\* both resources have been created
InitPair ==
    /\ pc = [p \in Procs |-> "done"]
    /\ op = [p \in Procs |-> "PrivilegedAccessGroupEligibilityScheduleRequestCreate"]
    /\ objectId = [p \in Procs |-> None]
    /\ memberId = [p \in Procs |-> None]
    /\ resourceId = [p \in Procs |-> <<PairRequestId[p]>>]
    /\ result = [p \in Procs |-> "ok"]
    /\ holder = [k \in LockKeys |-> None]
    /\ disableRetries = [c \in Clients |-> FALSE]
    /\ membership = [au \in AdministrativeUnitIds |-> "never"]
    /\ application = [a \in ApplicationIds |-> "present"]
    /\ targetOccurence = [p \in Procs |-> 0]
    /\ status = [p \in Procs |-> OK]
    /\ mutations = [p \in Procs |-> 0]
    /\ script = [p \in Procs |-> 0]
    /\ expired = [p \in Procs |-> FALSE]
    /\ given = [p \in Procs |-> {}]
    /\ rawStateIn = <<>>
    /\ rawState = <<>>
    /\ upgradeErr = None
    /\ upgrades = <<>>
    /\ lookup = [p \in Procs |-> None]
    /\ managerId = [p \in Procs |-> None]
    /\ modelStatus = [p \in Procs |-> "Provisioned"]
    /\ calls = [p \in Procs |-> <<"adminAssign">>]
    /\ populatedFrom = [p \in Procs |-> None]
    /\ requests = [p \in Procs |->
                    CreateAnswer(OK, PairRequestId[p], "Provisioned")]
    /\ changed = [p \in Procs |-> {}]
    /\ properties = [p \in Procs |-> {}]
    /\ inputs = "one"

\* a Read of a resource that is still tracked, with the ID and the status it
\* has in state
PairRead_Begin(p) ==
    /\ resourceId[p] # NoId
    /\ EligibilityRead_Begin(p)
    /\ resourceId'[p] = resourceId[p]
    /\ modelStatus'[p] = modelStatus[p]

PairRead_List(p) ==
    /\ pc[p] = "esr_list"
    /\ EligibilityRead_List(p)
    /\ requests'[p] \in PairListAnswers

NextPair == \E p \in Procs : PairRead_Begin(p) \/ PairRead_List(p)

SpecPair == InitPair /\ [][NextPair]_vars

(***************************************************************************)
(* State upgrades of azuread_application                                   *)
(* (ResourceApplicationInstanceStateUpgradeV0 and ...V1).  A state map is  *)
(* a function from the keys it holds to values; a value is a sequence that *)
(* starts with its type: a string with its characters, a list with its     *)
(* elements, a boolean, or nil.                                            *)
(***************************************************************************)
Nil == <<"nil">>
StringValue(chars) == <<"string">> \o chars
BoolValue(b) == <<"bool", b>>
\* []string{s} for the string value s
ListOfOne(s) == <<"list">> \o s

IsString(v) == Len(v) >= 1 /\ v[1] = "string"
Chars(v) == SubSeq(v, 2, Len(v))

\* rawState[k] of a Go map: nil for a key the map does not hold
Lookup(m, k) == IF k \in DOMAIN m THEN m[k] ELSE Nil
\* rawState[k] = v
Store(m, k, v) == [x \in DOMAIN m \cup {k} |-> IF x = k THEN v ELSE m[x]]
\* delete(rawState, k)
Delete(m, k) == [x \in DOMAIN m \ {k} |-> m[x]]

HexDigits ==
    {"0", "1", "2", "3", "4", "5", "6", "7", "8", "9",
     "a", "b", "c", "d", "e", "f", "A", "B", "C", "D", "E", "F"}

\* a UUID check that only looks at the length
ParseUUIDLengthOnly(s) == Len(s) = 36

\* uuid.ParseUUID succeeds: 36 characters, a hyphen at offsets 8, 13, 18 and 23,
\* hexadecimal digits elsewhere
ParseUUID(s) ==
    /\ Len(s) = 36
    /\ \A i \in 1..36 :
          IF i \in {9, 14, 19, 24} THEN s[i] = "-" ELSE s[i] \in HexDigits

\* parse.NewApplicationID(id).ID(): "/applications/" followed by the object ID
NewApplicationID(id) ==
    <<"/", "a", "p", "p", "l", "i", "c", "a", "t", "i", "o", "n", "s", "/">> \o id

\* the strings the upgrades are tried on
Repeat(c) == [i \in 1..36 |-> IF i \in {9, 14, 19, 24} THEN "-" ELSE c]
IdInputs ==
    {Repeat("a"), Repeat("0"), Repeat("F"),     \* UUIDs
     Repeat("g"),                               \* not hexadecimal
     [i \in 1..36 |-> "a"],                     \* no hyphens
     SubSeq(Repeat("a"), 1, 35),                \* too short
     <<>>,
     NewApplicationID(Repeat("a"))}             \* already in the new format
ClaimInputs == {<<"A", "l", "l">>, <<"N", "o", "n", "e">>, <<>>}

\* the values a key can hold in a stored state; "absent": the key is not there
Absent == <<"absent">>
RawStates ==
    {[k \in {x \in {"id", "display_name", "group_membership_claims", "public_client",
                     "fallback_public_client_enabled"} : f[x] # Absent} |-> f[k]] :
        f \in [id : {StringValue(s) : s \in IdInputs},
               display_name : {StringValue(<<"a", "p", "p">>)},
               group_membership_claims :
                    {StringValue(s) : s \in ClaimInputs} \cup {Nil, Absent},
               public_client : {BoolValue("true"), BoolValue("false"), Nil, Absent},
               fallback_public_client_enabled :
                    {BoolValue("true"), BoolValue("false"), Nil, Absent}]}

\* a V0 upgrade that always copies public_client
StateUpgradeV0AlwaysCopies(m) ==
    IF ~IsString(Lookup(m, "group_membership_claims"))
    THEN [state |-> m, err |-> "panic"]
    ELSE LET m1 == Store(m, "group_membership_claims",
                         ListOfOne(Lookup(m, "group_membership_claims")))
             m2 == Store(m1, "fallback_public_client_enabled", Lookup(m1, "public_client"))
         IN  [state |-> Delete(m2, "public_client"), err |-> "nil"]

\* ResourceApplicationInstanceStateUpgradeV0: the returned map and error; the
\* unchecked type assertion panics on a value that is not a string
ResourceApplicationInstanceStateUpgradeV0(m) ==
    IF ~IsString(Lookup(m, "group_membership_claims"))
    THEN [state |-> m, err |-> "panic"]
    ELSE LET m1 == Store(m, "group_membership_claims",
                         ListOfOne(Lookup(m, "group_membership_claims")))
             m2 == IF "fallback_public_client_enabled" \notin DOMAIN m1
                      \/ m1["fallback_public_client_enabled"] = Nil
                   THEN Store(m1, "fallback_public_client_enabled",
                              Lookup(m1, "public_client"))
                   ELSE m1
         IN  [state |-> Delete(m2, "public_client"), err |-> "nil"]

\* ResourceApplicationInstanceStateUpgradeV1
ResourceApplicationInstanceStateUpgradeV1(m) ==
    IF ~IsString(Lookup(m, "id"))
    THEN [state |-> m, err |-> "panic"]
    ELSE IF ~ParseUUID(Chars(m["id"]))
    THEN [state |-> m, err |-> "error"]
    ELSE [state |-> Store(m, "id", StringValue(NewApplicationID(Chars(m["id"])))),
          err |-> "nil"]

InitUpgrade ==
    /\ pc = [p \in Procs |-> "done"]
    /\ op = [p \in Procs |-> None]
    /\ objectId = [p \in Procs |-> None]
    /\ memberId = [p \in Procs |-> None]
    /\ resourceId = [p \in Procs |-> NoId]
    /\ result = [p \in Procs |-> None]
    /\ holder = [k \in LockKeys |-> None]
    /\ disableRetries = [c \in Clients |-> FALSE]
    /\ membership = [au \in AdministrativeUnitIds |-> "never"]
    /\ application = [a \in ApplicationIds |-> "present"]
    /\ targetOccurence = [p \in Procs |-> 0]
    /\ status = [p \in Procs |-> None]
    /\ mutations = [p \in Procs |-> 0]
    /\ script = [p \in Procs |-> 0]
    /\ expired = [p \in Procs |-> FALSE]
    /\ given = [p \in Procs |-> {}]
    /\ lookup = [p \in Procs |-> None]
    /\ managerId = [p \in Procs |-> None]
    /\ modelStatus = [p \in Procs |-> None]
    /\ calls = [p \in Procs |-> <<>>]
    /\ populatedFrom = [p \in Procs |-> None]
    /\ requests = [p \in Procs |-> [err |-> None, list |-> <<>>]]
    /\ changed = [p \in Procs |-> {}]
    /\ properties = [p \in Procs |-> {}]
    /\ inputs = "one"
    /\ rawStateIn \in RawStates
    /\ rawState = rawStateIn
    /\ upgradeErr = None
    /\ upgrades = <<>>

\* what is left alone by an upgrade
UpgradeFrame ==
    <<pc, op, resourceId, result, status, disableRetries, resourceVars, updateVars,
      dataSourceVars, scheduleVars, rawStateIn>>

\* the upgrade from schema version 0 is the first of the chain
StateUpgradeV0_Apply ==
    /\ upgrades = <<>>
    /\ rawState' = ResourceApplicationInstanceStateUpgradeV0(rawState).state
    /\ upgradeErr' = ResourceApplicationInstanceStateUpgradeV0(rawState).err
    /\ upgrades' = Append(upgrades, "V0")
    /\ UNCHANGED UpgradeFrame

\* the upgrade from schema version 1, applied to a stored state or to what an
\* upgrader returned without a panic; it is applied up to twice
StateUpgradeV1_Apply ==
    /\ upgradeErr # "panic"
    /\ Cardinality({i \in DOMAIN upgrades : upgrades[i] = "V1"}) < 2
    /\ rawState' = ResourceApplicationInstanceStateUpgradeV1(rawState).state
    /\ upgradeErr' = ResourceApplicationInstanceStateUpgradeV1(rawState).err
    /\ upgrades' = Append(upgrades, "V1")
    /\ UNCHANGED UpgradeFrame

NextUpgrade == StateUpgradeV0_Apply \/ StateUpgradeV1_Apply

SpecUpgrade == InitUpgrade /\ [][NextUpgrade]_vars

(***************************************************************************)
(* The handlers that take a named lock, under fair scheduling: a handler   *)
(* that can take a step takes one, the mutex is handed to a task that      *)
(* keeps asking for it, and the deadline of a poll passes.                 *)
(***************************************************************************)
\* the steps of the locking handlers after their LockByName
Locked_Step(p) ==
    \/ Create_Get(p) \/ Create_GetMember(p) \/ Create_AddMembers(p)
    \/ Create_Refresh(p) \/ Create_Timeout(p) \/ Create_Read(p)
    \/ Delete_RemoveMembers(p) \/ Delete_Probe(p) \/ Delete_GetMember(p)
    \/ Delete_Timeout(p)
    \/ AppUpdate_Update(p)

\* LockByName returns
Locking_LockByName(p) ==
    Create_LockByName(p) \/ Delete_LockByName(p) \/ AppUpdate_LockByName(p)

\* the deadline of a poll passes
Locking_Timeout(p) == Create_Timeout(p) \/ Delete_Timeout(p)

NextLocking ==
    \E p \in Procs :
        \/ Create_Begin(p) \/ Create_LockByName(p) \/ Create_Get(p)
        \/ Create_GetMember(p) \/ Create_AddMembers(p) \/ Create_Refresh(p)
        \/ Create_Timeout(p) \/ Create_Read(p)
        \/ Delete_Begin(p) \/ Delete_LockByName(p) \/ Delete_RemoveMembers(p)
        \/ Delete_Probe(p) \/ Delete_GetMember(p) \/ Delete_Timeout(p)
        \/ AppUpdate_Begin(p) \/ AppUpdate_LockByName(p) \/ AppUpdate_Update(p)
        \/ LockByName_DeadlineExpires(p)

FairLocking ==
    \A p \in Procs :
        /\ WF_vars(Locked_Step(p))
        /\ SF_vars(Locking_LockByName(p))
        /\ SF_vars(Locking_Timeout(p))

SpecLocking == Init /\ [][NextLocking]_vars /\ FairLocking

(***************************************************************************)
(* Properties                                                              *)
(***************************************************************************)
\* the (resource name, ID) pair an operation is meant to serialize on
ScopeKey(p) ==
    <<IF op[p] \in MemberOps THEN administrativeUnitResourceName
                             ELSE applicationResourceName,
      objectId[p]>>

\* the task is between LockByName and UnlockByName
InCriticalSection(p) ==
    pc[p] \in {"c_get", "c_getMember", "c_addMembers", "c_wait", "c_read",
               "d_removeMembers", "d_wait", "d_getMember", "u_update"}

\* the task is inside LockByName
AtLock(p) == pc[p] \in {"c_lock", "d_lock", "u_lock"}

Acquire(p) == Create_LockByName(p) \/ Delete_LockByName(p) \/ AppUpdate_LockByName(p)

\* C1: two operations that lock the same (resource name, ID) pair are never
\* both between LockByName and UnlockByName.
C1_MutualExclusion ==
    \A p, q \in Procs :
        (p # q /\ InCriticalSection(p) /\ InCriticalSection(q))
            => ScopeKey(p) # ScopeKey(q)

\* a Delete waits for the lock while a Create of the same administrative unit polls
C1_Witness ==
    /\ pc["t1"] = "c_wait" /\ pc["t2"] = "d_lock"
    /\ objectId["t1"] = objectId["t2"]

\* C2: when Create's existence probe finds the membership, Create returns the
\* already-exists error, has issued no mutating call, leaves the remote
\* membership as it was and has set no resource ID.
C2_DuplicateCreateRejected ==
    [][\A p \in Procs :
          (pc[p] = "c_getMember" /\ pc'[p] # "c_getMember" /\ status'[p] = OK)
              => /\ pc'[p] = "done"
                 /\ result'[p] = "AlreadyExists"
                 /\ mutations'[p] = 0
                 /\ membership' = membership
                 /\ resourceId'[p] = NoId]_vars

C2_Witness ==
    \E p \in Procs :
        /\ op[p] = "administrativeUnitMemberResourceCreate"
        /\ pc[p] = "done" /\ result[p] = "AlreadyExists" /\ status[p] = OK

\* C3: the visibility poll succeeds only on the third consecutive "Done"
\* observation, a "Waiting" observation resets the count, and for the probe
\* sequence ScriptedProbes it succeeds at the 6th probe and not before.
C3_PollHysteresis ==
    [][\A p \in Procs :
          /\ (pc[p] = "c_wait" /\ pc'[p] = "c_read")
                => (targetOccurence[p] = 2 /\ status'[p] = OK)
          /\ (pc'[p] = "c_wait" /\ status'[p] = NotFound) => targetOccurence'[p] = 0
          /\ (pc'[p] = "c_wait" /\ status'[p] = OK) => targetOccurence'[p] \in {1, 2}
          /\ (pc[p] = "c_wait" /\ pc'[p] = "c_wait" /\ status[p] = OK /\ status'[p] = OK)
                => targetOccurence'[p] >= targetOccurence[p]
          /\ (pc[p] = "c_wait" /\ pc'[p] = "c_read" /\ script'[p] >= 0)
                => script'[p] = Len(ScriptedProbes)
          /\ (pc[p] = "c_wait" /\ script'[p] = Len(ScriptedProbes))
                => pc'[p] = "c_read"]_vars

\* the poll has just succeeded on the 6th probe of the scripted sequence
C3_Witness ==
    \E p \in Procs : pc[p] = "c_read" /\ script[p] = Len(ScriptedProbes)

\* C4: a Read whose fetch is 404 clears the ID and returns no error.
C4_Read404DropsState ==
    \A p \in Procs :
        (/\ op[p] \in {"administrativeUnitMemberResourceRead", "ApplicationRegistrationRead"}
         /\ pc[p] = "done" /\ status[p] = NotFound)
            => (result[p] = "ok" /\ resourceId[p] = NoId)

\* both Reads have seen a 404
C4_Witness ==
    /\ op["t1"] = "administrativeUnitMemberResourceRead"
    /\ op["t2"] = "ApplicationRegistrationRead"
    /\ \A p \in Procs : pc[p] = "done" /\ status[p] = NotFound /\ resourceId[p] = NoId

\* C5: a Delete whose remote remove/delete call answers 404 (the identity is
\* already absent) returns success.
C5_IdempotentDelete ==
    \A p \in Procs :
        (/\ op[p] \in {"administrativeUnitMemberResourceDelete", "ApplicationRegistrationDelete"}
         /\ pc[p] = "done" /\ mutations[p] = 0 /\ status[p] = NotFound)
            => result[p] = "ok"

\* the field of msgraph.Application that carries an attribute
FieldOf(a) ==
    CASE a = "display_name" -> "DisplayName"
      [] a = "description" -> "Description"
      [] a = "group_membership_claims" -> "GroupMembershipClaims"
      [] a = "notes" -> "Notes"
      [] a = "requested_access_token_version" -> "Api.RequestedAccessTokenVersion"
      [] a = "service_management_reference" -> "ServiceManagementReference"
      [] a = "sign_in_audience" -> "SignInAudience"
      [] a = "marketing_url" -> "Info.MarketingUrl"
      [] a = "privacy_statement_url" -> "Info.PrivacyStatementUrl"
      [] a = "support_url" -> "Info.SupportUrl"
      [] a = "terms_of_service_url" -> "Info.TermsOfServiceUrl"
      [] a = "homepage_url" -> "Web.HomePageUrl"
      [] a = "logout_url" -> "Web.LogoutUrl"
      [] a = "implicit_access_token_issuance_enabled"
            -> "Web.ImplicitGrantSettings.EnableAccessTokenIssuance"
      [] a = "implicit_id_token_issuance_enabled"
            -> "Web.ImplicitGrantSettings.EnableIdTokenIssuance"

Blocks == {"Api", "Info", "Web", "Web.ImplicitGrantSettings"}

\* the attributes a nested block carries
BlockAttributes(b) ==
    CASE b = "Api" -> {"requested_access_token_version"}
      [] b = "Info" -> {"marketing_url", "privacy_statement_url", "support_url",
                        "terms_of_service_url"}
      [] b = "Web" -> {"homepage_url", "logout_url",
                       "implicit_access_token_issuance_enabled",
                       "implicit_id_token_issuance_enabled"}
      [] b = "Web.ImplicitGrantSettings" -> {"implicit_access_token_issuance_enabled",
                                             "implicit_id_token_issuance_enabled"}

\* C6: the payload Update sends holds the object ID, the field of every changed
\* attribute and of no other, and a nested block exactly when one of the block's
\* attributes changed.
C6_UpdatePayloadMinimal ==
    \A p \in Procs :
        pc[p] = "u_update" =>
            properties[p] = {"Id"}
                            \cup {FieldOf(a) : a \in changed[p]}
                            \cup {b \in Blocks : BlockAttributes(b) \cap changed[p] # {}}

\* only the logout URL and the display name changed: Web is sent with LogoutUrl alone,
\* Info and Api are not sent
C6_Witness ==
    /\ pc["t1"] = "u_update"
    /\ changed["t1"] = {"logout_url", "display_name"}
    /\ properties["t1"] = {"Id", "DisplayName", "Web", "Web.LogoutUrl"}

\* C7: when the deadline passes before the visibility poll reaches its target,
\* Create returns the timeout of the wait, which is not the outcome of a failing
\* probe, and no resource ID is set.
C7_TimeoutSurfacesDistinctly ==
    \A p \in Procs :
        op[p] = "administrativeUnitMemberResourceCreate" =>
            /\ status[p] = DeadlineExceeded
                  => (pc[p] = "done" /\ result[p] = "ConsistencyTimeout"
                      /\ resourceId[p] = NoId)
            /\ result[p] = "ConsistencyTimeout" => status[p] = DeadlineExceeded
            /\ result[p] = "ProbeError" => (status[p] = Error /\ resourceId[p] = NoId)
            /\ result[p] \in {"ConsistencyTimeout", "ProbeError"} => pc[p] = "done"

\* a Create has added the member and its poll has timed out
C7_Witness ==
    \E p \in Procs :
        /\ op[p] = "administrativeUnitMemberResourceCreate"
        /\ pc[p] = "done" /\ result[p] = "ConsistencyTimeout"
        /\ mutations[p] = 1 /\ resourceId[p] = NoId

\* C8: a locking operation releases its lock when it returns, whatever it
\* returns, holds it until then, and releases nothing else; when no operation is
\* in progress no lock is held.
C8_LockReleasedOnEveryExit ==
    [][\A p \in Procs :
          /\ (pc[p] # "done" /\ pc'[p] = "done" /\ op[p] \in LockingOps)
                => (holder[LockKeyOf(p)] = p /\ holder'[LockKeyOf(p)] = None)
          /\ \A k \in LockKeys :
                (holder[k] = p /\ holder'[k] # p)
                    => (pc[p] # "done" /\ pc'[p] = "done" /\ holder'[k] = None
                        /\ k = LockKeyOf(p))
          /\ (\A q \in Procs : pc'[q] = "done")
                => \A k \in LockKeys : holder'[k] = None]_vars

\* a Create has returned for a missing deadline and an Update for a remote error,
\* and no lock is held
C8_Witness ==
    /\ op["t1"] = "administrativeUnitMemberResourceCreate"
    /\ pc["t1"] = "done" /\ result["t1"] = "NoDeadline"
    /\ op["t2"] = "ApplicationRegistrationUpdate"
    /\ pc["t2"] = "done" /\ result["t2"] = "RemoteError"
    /\ \A k \in LockKeys : holder[k] = None

\* C9: an operation waiting in LockByName can take the lock unless another
\* operation on the same (resource name, ID) pair is in its critical section.
C9_DisjointKeysNeverBlock ==
    \A p \in Procs :
        AtLock(p) =>
            \/ ENABLED Acquire(p)
            \/ \E q \in Procs \ {p} : InCriticalSection(q) /\ ScopeKey(q) = ScopeKey(p)

\* a Create on one administrative unit has taken its lock while a Create on
\* another administrative unit is polling
C9_Witness ==
    /\ op["t1"] = "administrativeUnitMemberResourceCreate" /\ pc["t1"] = "c_wait"
    /\ op["t2"] = "administrativeUnitMemberResourceCreate" /\ pc["t2"] = "c_get"
    /\ objectId["t1"] # objectId["t2"]

\* C10: a probe of a consistency poll that fails with a status other than 404
\* ends the operation with the probe's error; a 404 makes Create's poll go on
\* waiting and counts as an absent observation in a Delete's poll; only a
\* failed probe yields the probe's error.
C10_ProbeErrorEndsPoll ==
    [][\A p \in Procs :
          /\ (pc[p] \in {"c_wait", "d_getMember", "ad_get"} /\ status'[p] = Error)
                => (pc'[p] = "done" /\ result'[p] = "ProbeError")
          /\ (pc[p] = "c_wait" /\ status'[p] = NotFound)
                => (pc'[p] = "c_wait" /\ targetOccurence'[p] = 0)
          /\ (pc[p] \in {"d_getMember", "ad_get"} /\ pc'[p] # pc[p]
              /\ status'[p] = NotFound)
                => \/ /\ pc'[p] \in {"d_wait", "ad_wait"}
                      /\ targetOccurence'[p] = targetOccurence[p] + 1
                   \/ pc'[p] = "done" /\ result'[p] = "ok"
          /\ (result'[p] = "ProbeError" /\ result[p] # "ProbeError")
                => status'[p] = Error]_vars

\* one poll has gone on after a 404 while the other has ended on a failed probe
C10_Witness ==
    \E p, q \in Procs :
        /\ pc[p] = "done" /\ result[p] = "ProbeError" /\ status[p] = Error
        /\ op[p] = "ApplicationRegistrationDelete"
        /\ pc[q] = "c_wait" /\ status[q] = NotFound /\ mutations[q] = 1
        /\ script[q] = 3

\* the task runs administrativeUnitMemberResourceCreate
IsCreate(p) == op[p] = "administrativeUnitMemberResourceCreate"

\* C11: while Create runs, AddMembers is issued only after the existence probe answered
\* 404, the ID is set only after AddMembers and after the poll reached its
\* target, success is returned only after that, the lock is released at the
\* return and it is held from before AddMembers until the poll has ended.
C11_CreateOrder ==
    [][\A p \in Procs :
          (IsCreate(p) /\ pc[p] # "done") =>
            /\ mutations'[p] # mutations[p]
                  => /\ pc[p] = "c_addMembers" /\ status[p] = NotFound
                     /\ mutations[p] = 0 /\ mutations'[p] = 1
                     /\ resourceId[p] = NoId
                     /\ holder[CreateLockKey(p)] = p
            /\ (pc[p] = "c_getMember" /\ pc'[p] = "c_addMembers")
                  => status'[p] = NotFound
            /\ (resourceId[p] = NoId /\ resourceId'[p] # NoId)
                  => /\ pc[p] = "c_wait" /\ mutations[p] = 1
                     /\ targetOccurence[p] = 2 /\ status'[p] = OK
                     /\ resourceId'[p] = AdministrativeUnitMemberID(objectId[p], memberId[p])
                     /\ holder'[CreateLockKey(p)] = p
            /\ (pc[p] # "done" /\ pc'[p] = "done" /\ result'[p] = "ok")
                  => /\ pc[p] = "c_read" /\ mutations[p] = 1
                     /\ resourceId[p] # NoId
                     /\ holder[CreateLockKey(p)] = p
                     /\ holder'[CreateLockKey(p)] = None
            /\ pc[p] \in {"c_addMembers", "c_wait", "c_read"}
                  => holder[CreateLockKey(p)] = p]_vars

\* a Create has returned success with its ID set
C11_Witness ==
    \E p \in Procs :
        /\ IsCreate(p) /\ pc[p] = "done" /\ result[p] = "ok"
        /\ mutations[p] = 1
        /\ resourceId[p] = AdministrativeUnitMemberID(objectId[p], memberId[p])

\* the task runs one of the two Delete handlers
IsDelete(p) ==
    op[p] \in {"administrativeUnitMemberResourceDelete", "ApplicationRegistrationDelete"}

\* C12: while a Delete runs, it returns success only after its remove/delete
\* call succeeded and the probe of the absence poll answered 404; the member
\* Delete holds the lock of the administrative unit from before the remove
\* call until it returns.
C12_DeleteOrder ==
    [][\A p \in Procs :
          (IsDelete(p) /\ pc[p] # "done") =>
            /\ mutations'[p] # mutations[p]
                  => /\ pc[p] \in {"d_removeMembers", "ad_delete"}
                     /\ status'[p] = OK
                     /\ mutations[p] = 0 /\ mutations'[p] = 1
            /\ (pc'[p] = "done" /\ result'[p] = "ok")
                  => /\ pc[p] \in {"d_getMember", "ad_get"}
                     /\ mutations[p] = 1
                     /\ status'[p] = NotFound
            /\ (op[p] = "administrativeUnitMemberResourceDelete"
                /\ pc[p] \in {"d_removeMembers", "d_wait", "d_getMember"})
                  => /\ holder[DeleteLockKey(p)] = p
                     /\ holder'[DeleteLockKey(p)] = IF pc'[p] = "done" THEN None ELSE p]_vars

\* a member Delete and an application Delete have both returned success
C12_Witness ==
    /\ op["t1"] = "administrativeUnitMemberResourceDelete"
    /\ op["t2"] = "ApplicationRegistrationDelete"
    /\ \A p \in Procs : pc[p] = "done" /\ result[p] = "ok" /\ mutations[p] = 1

\* C14: an operation whose deadline passed while it waited in LockByName leaves
\* the wait only by returning a lock-timeout error; it does not take the lock
\* once the holder has released it.
C14_LockRespectsDeadline ==
    [][\A p \in Procs :
          (AtLock(p) /\ expired[p] /\ pc'[p] # pc[p])
              => (pc'[p] = "done" /\ result'[p] = "LockTimeout")]_vars

\* C15: a 404 on a secondary reference is returned as an error: the
\* administrative unit looked up by the member Create, and the manager looked up
\* by userDataSourceRead.
C15_SecondaryNotFoundSurfaced ==
    \A p \in Procs :
        /\ (IsCreate(p) /\ pc[p] = "done" /\ mutations[p] = 0
            /\ result[p] = "AdministrativeUnitNotFound") => status[p] = NotFound
        /\ (IsCreate(p) /\ pc[p] = "c_getMember") => status[p] = OK
        /\ (op[p] = "userDataSourceRead" /\ pc[p] = "done" /\ resourceId[p] # NoId
            /\ status[p] = NotFound) => result[p] \notin {"ok", None}

\* C16: a Create that fails in its poll after AddMembers succeeded issues no
\* further mutating call, leaves the membership in place and returns its error
\* with no ID set; a Create whose existence probe then sees that membership
\* returns already-exists without AddMembers.
C16_OrphanDiscoveredOnRetry ==
    [][\A p \in Procs :
          (IsCreate(p) /\ pc[p] # "done") =>
            /\ (pc'[p] = "done" /\ mutations[p] = 1
                /\ result'[p] \in {"ConsistencyTimeout", "ProbeError"})
                  => /\ membership' = membership
                     /\ membership[objectId[p]] = "present"
                     /\ mutations'[p] = 1
                     /\ resourceId'[p] = NoId
            /\ (pc[p] = "c_wait" /\ pc'[p] = "done")
                  => result'[p] \in {"ConsistencyTimeout", "ProbeError"}
            /\ (pc[p] = "c_getMember" /\ pc'[p] # pc[p] /\ status'[p] = OK)
                  => /\ membership[objectId[p]] # "never"
                     /\ result'[p] = "AlreadyExists"
                     /\ mutations'[p] = 0
                     /\ membership' = membership]_vars

\* one Create has failed in its poll, and a later Create of the same member in
\* the same administrative unit has found the membership it left behind
C16_Witness ==
    /\ IsCreate("t1") /\ pc["t1"] = "done" /\ mutations["t1"] = 1
    /\ result["t1"] \in {"ConsistencyTimeout", "ProbeError"}
    /\ IsCreate("t2") /\ pc["t2"] = "done" /\ result["t2"] = "AlreadyExists"
    /\ objectId["t1"] = objectId["t2"] /\ memberId["t1"] = memberId["t2"]
    /\ membership[objectId["t1"]] = "present"

\* C13: an operation that works on a resource with an ID keeps the ID or clears
\* it; it never replaces it by another ID.
C13_IdentityImmutable ==
    [][\A p \in Procs :
          (pc[p] # "done" /\ resourceId[p] # NoId)
              => resourceId'[p] \in {resourceId[p], NoId}]_vars

\* the task has finished a Delete of a schedule resource
ScheduleDeleteDone(p) ==
    /\ op[p] \in {"PrivilegedAccessGroupAssignmentScheduleDelete",
                  "PrivilegedAccessGroupEligibilityScheduleRequestDelete"}
    /\ pc[p] = "done"

\* C17: a Delete of a schedule resource fetches nothing and sends exactly one
\* Cancel for the seven cancelable statuses, exactly one adminRemove request for
\* Provisioned and ScheduleCreated, nothing for Canceled and Revoked, which mark
\* the resource gone, and nothing for any other status, which is an error.
C17_DeleteByStoredStatus ==
    \A p \in Procs :
        ScheduleDeleteDone(p) =>
            /\ requests[p].err = None
            /\ modelStatus[p] \in {"Denied", "Failed", "Granted", "PendingAdminDecision",
                                   "PendingApproval", "PendingProvisioning",
                                   "PendingScheduledCreation"}
                  => calls[p] = <<"Cancel">>
            /\ modelStatus[p] \in {"Provisioned", "ScheduleCreated"}
                  => calls[p] = <<"adminRemove">>
            /\ modelStatus[p] \in {"Canceled", "Revoked"}
                  => (calls[p] = <<>> /\ result[p] = "ok" /\ resourceId[p] = NoId)
            /\ modelStatus[p] = "Other"
                  => (calls[p] = <<>> /\ result[p] = "UnknownStatus"
                      /\ resourceId[p] # NoId)

\* a Delete of an assignment schedule stored as Provisioned has sent its
\* adminRemove request
C17_Witness ==
    \E p \in Procs :
        /\ op[p] = "PrivilegedAccessGroupAssignmentScheduleDelete" /\ pc[p] = "done"
        /\ modelStatus[p] = "Provisioned" /\ calls[p] = <<"adminRemove">>
        /\ status[p] = OK /\ result[p] = "ok"

\* C18: the assignment schedule Read marks the resource gone exactly when the
\* schedule fetch is 404 and the list is nil or empty; it populates the model
\* from the first request when there is one, from the schedule when there is
\* none and the schedule was found; an error of the fetch other than 404 or of
\* the list is returned and the resource is not marked gone.
C18_AssignmentRead ==
    \A p \in Procs :
        (op[p] = "PrivilegedAccessGroupAssignmentScheduleRead" /\ pc[p] = "done") =>
            LET l == requests[p]
                listed == l.err \in {OK, "nil"}
            IN  /\ resourceId[p] = NoId
                      <=> (status[p] = NotFound /\ listed /\ Len(l.list) = 0)
                /\ resourceId[p] = NoId => (result[p] = "ok" /\ populatedFrom[p] = None)
                /\ (listed /\ Len(l.list) > 0)
                      => /\ populatedFrom[p] = "request"
                         /\ modelStatus[p] = l.list[1].status
                         /\ result[p] = "ok"
                /\ (listed /\ Len(l.list) = 0 /\ status[p] = OK)
                      => (populatedFrom[p] = "schedule" /\ result[p] = "ok")
                /\ (status[p] = Error \/ l.err = Error)
                      => /\ result[p] = "RemoteError"
                         /\ populatedFrom[p] = None

\* the schedule fetch was 404 but two requests exist: the model is populated
\* from the first and the resource is kept
C18_Witness ==
    \E p \in Procs :
        /\ op[p] = "PrivilegedAccessGroupAssignmentScheduleRead" /\ pc[p] = "done"
        /\ status[p] = NotFound /\ Len(requests[p].list) = 2
        /\ populatedFrom[p] = "request" /\ resourceId[p] # NoId
        /\ modelStatus[p] = requests[p].list[1].status
        /\ modelStatus[p] # requests[p].list[2].status

\* C19: when its list succeeds, the eligibility schedule request Read marks the
\* resource gone exactly when the list is empty or its first request is Canceled
\* or Revoked; otherwise the model is populated from the first request and the
\* ID is the ID of that request, replacing a different stored ID.
C19_EligibilityRead ==
    [][\A p \in Procs :
          (pc[p] = "esr_list" /\ pc'[p] = "done") =>
            LET l == requests'[p]
                ended == Len(l.list) = 0 \/ l.list[1].status \in {"Canceled", "Revoked"}
            IN  /\ resourceId'[p] = NoId <=> (l.err = OK /\ ended)
                /\ (l.err = OK /\ ended) => (result'[p] = "ok" /\ populatedFrom'[p] = None)
                /\ (l.err = OK /\ ~ended)
                      => /\ result'[p] = "ok"
                         /\ populatedFrom'[p] = "request"
                         /\ modelStatus'[p] = l.list[1].status
                         /\ resourceId'[p] = <<l.list[1].id>>
                         /\ resourceId'[p] # resourceId[p]
                               <=> resourceId[p] # <<l.list[1].id>>]_vars

\* the Read has found a newer request than the stored one and has taken its ID
C19_Witness ==
    \E p \in Procs :
        /\ op[p] = "PrivilegedAccessGroupEligibilityScheduleRequestRead" /\ pc[p] = "done"
        /\ Len(requests[p].list) = 2
        /\ requests[p].list[1] = [id |-> "r2", status |-> "Provisioned"]
        /\ requests[p].list[2] = [id |-> "r1", status |-> "Revoked"]
        /\ resourceId[p] = <<"r2">> /\ populatedFrom[p] = "request"
        /\ modelStatus[p] = "Provisioned"

\* C20: in a Delete of a schedule resource that has sent its Cancel or its
\* adminRemove request, a 404 marks the resource gone and returns no error, and
\* any other error is returned and leaves the ID in place.
C20_DeleteNotFoundIsSuccess ==
    \A p \in Procs :
        (ScheduleDeleteDone(p) /\ calls[p] # <<>>) =>
            /\ status[p] = NotFound => (result[p] = "ok" /\ resourceId[p] = NoId)
            /\ status[p] = Error => (result[p] = "RemoteError" /\ resourceId[p] # NoId)

\* the Cancel of an eligibility schedule request has answered 404
C20_Witness ==
    \E p \in Procs :
        /\ op[p] = "PrivilegedAccessGroupEligibilityScheduleRequestDelete" /\ pc[p] = "done"
        /\ calls[p] = <<"Cancel">> /\ status[p] = NotFound
        /\ result[p] = "ok" /\ resourceId[p] = NoId

(***************************************************************************)
(* C21: Create of a privileged access group schedule resource (assignment  *)
(* and eligibility) sets the resource ID only if client.Create succeeded,  *)
(* returned a non-empty request ID and a status other than Failed; in      *)
(* every other case Create returns an error, leaves the ID unset and has   *)
(* sent nothing but its one adminAssign request: no Cancel, no adminRemove.*)
(***************************************************************************)
IsScheduleCreate(p) ==
    op[p] \in {"PrivilegedAccessGroupAssignmentScheduleCreate",
               "PrivilegedAccessGroupEligibilityScheduleRequestCreate"}

CreateAccepted(p) ==
    /\ requests[p].err = OK
    /\ Len(requests[p].list) = 1
    /\ requests[p].list[1].id # ""
    /\ requests[p].list[1].status # "Failed"

C21_CreateSetsIdOnlyOnSuccess ==
    \A p \in Procs :
        (IsScheduleCreate(p) /\ pc[p] = "done") =>
            /\ (resourceId[p] # NoId => CreateAccepted(p) /\ result[p] = "ok")
            /\ (~CreateAccepted(p) =>
                    /\ result[p] \in {"RemoteError", "EmptyID", "FailedState"}
                    /\ resourceId[p] = NoId
                    /\ calls[p] = <<"adminAssign">>)

\* a Create has refused a request that was created remotely in the
\* Failed state: an error, no ID, and no call after the create
C21_Witness ==
    \E p \in Procs :
        /\ IsScheduleCreate(p) /\ pc[p] = "done"
        /\ requests[p].err = OK /\ Len(requests[p].list) = 1
        /\ requests[p].list[1].id = "r1"
        /\ requests[p].list[1].status = "Failed"
        /\ result[p] = "FailedState"
        /\ resourceId[p] = NoId
        /\ calls[p] = <<"adminAssign">>

(***************************************************************************)
(* C22: whenever no operation is in progress, DisableRetries is false on   *)
(* every client: each operation that sets it resets it on every exit path, *)
(* the already-exists and probe-error returns of                           *)
(* administrativeUnitMemberResourceCreate included.                        *)
(***************************************************************************)
C22_RetriesRestored ==
    (\A p \in Procs : pc[p] = "done") =>
        \A c \in Clients : disableRetries[c] = FALSE

(***************************************************************************)
(* C23: of two concurrent administrativeUnitMemberResourceCreate           *)
(* operations for the same (administrative unit, member) pair, where a     *)
(* membership observed present on three consecutive probes stays visible,  *)
(* at most one issues AddMembers and succeeds; a Create runs its existence *)
(* probe holding the lock while the other is before its LockByName or has  *)
(* returned; and the existence probe of the Create that runs after the     *)
(* other has succeeded ends it without AddMembers, with already-exists     *)
(* when the probe is answered and with the probe's error when it is not.   *)
(***************************************************************************)
CreateSucceeded(q) ==
    /\ op[q] = "administrativeUnitMemberResourceCreate"
    /\ pc[q] = "done"
    /\ result[q] = "ok"
    /\ mutations[q] = 1

C23_ConcurrentCreateOnce ==
    [][ /\ Cardinality({q \in Procs : CreateSucceeded(q)}') <= 1
        /\ \A p \in Procs :
              pc'[p] = "c_getMember" =>
                  /\ holder'[CreateLockKey(p)'] = p
                  /\ \A q \in Procs \ {p} : pc'[q] \in {"done", "c_lock"}
        /\ \A p \in Procs, q \in Procs :
              (/\ p # q
               /\ CreateSucceeded(q)
               /\ pc[p] = "c_getMember" /\ pc'[p] # "c_getMember") =>
                  /\ pc'[p] = "done"
                  /\ mutations'[p] = 0
                  /\ resourceId'[p] = NoId
                  /\ \/ status'[p] = OK /\ result'[p] = "AlreadyExists"
                     \/ status'[p] = Error /\ result'[p] = "RemoteError"
      ]_vars

\* one Create has added the member and succeeded; the other, which was waiting
\* for the lock meanwhile, has run its probe and returned already-exists
C23_Witness ==
    \E p \in Procs, q \in Procs :
        /\ p # q
        /\ CreateSucceeded(q)
        /\ op[p] = "administrativeUnitMemberResourceCreate"
        /\ objectId[p] = objectId[q] /\ memberId[p] = memberId[q]
        /\ pc[p] = "done"
        /\ result[p] = "AlreadyExists"
        /\ mutations[p] = 0
        /\ membership[objectId[p]] = "present"

(***************************************************************************)
(* C24: every remote call an operation issues inside its own no-retry      *)
(* window (after it has set DisableRetries to true and before its own      *)
(* reset) runs with DisableRetries still true, whatever other operations   *)
(* do on the same client meanwhile.                                        *)
(***************************************************************************)
\* the client on which task p is about to issue a call inside its no-retry
\* window, None when it is not in one
NoRetryWindow(p) ==
    IF pc[p] \in {"c_getMember", "d_getMember"} THEN "AdministrativeUnitsClient"
    ELSE IF pc[p] \in {"ar_get", "ad_delete", "ad_get"} THEN "ApplicationsClient"
    ELSE None

C24_NoRetryWindowIsolated ==
    \A p \in Procs :
        NoRetryWindow(p) # None => disableRetries[NoRetryWindow(p)] = TRUE

(***************************************************************************)
(* C25: an operation holds at most one named lock at a time and requests   *)
(* none while it holds one; and, every remote call and every poll          *)
(* terminating, an operation blocked in LockByName eventually holds its    *)
(* lock under fair scheduling.                                             *)
(***************************************************************************)
LocksHeld(p) == {k \in LockKeys : holder[k] = p}

C25_NoDeadlock ==
    /\ [](\A p \in Procs :
            /\ Cardinality(LocksHeld(p)) <= 1
            /\ AtLock(p) => LocksHeld(p) = {}
            /\ InCriticalSection(p) => LocksHeld(p) = {LockKeyOf(p)})
    /\ \A p \in Procs :
            AtLock(p) ~> (InCriticalSection(p) /\ holder[LockKeyOf(p)] = p)

\* a task holds the lock it was kept waiting for until the deadline of its
\* context had passed
C25_Witness ==
    \E p \in Procs :
        /\ InCriticalSection(p)
        /\ expired[p]
        /\ holder[LockKeyOf(p)] = p

(***************************************************************************)
(* C26: two distinct tracked eligibility schedule request resources keep   *)
(* distinct IDs after any sequence of Reads, also when they have the same  *)
(* groupId and principalId and differ in assignment_type.                  *)
(***************************************************************************)
C26_DistinctResourcesDistinctIds ==
    \A p \in Procs, q \in Procs :
        (p # q /\ resourceId[p] # NoId /\ resourceId[q] # NoId)
            => resourceId[p] # resourceId[q]

(***************************************************************************)
(* C27: userDataSourceRead performs exactly one lookup, by the first       *)
(* non-empty of user_principal_name, object_id, mail, mail_nickname,       *)
(* employee_id; a filter lookup goes on only if exactly one user matches - *)
(* no match and several matches each return an error and set no ID; an     *)
(* object_id lookup answered 404 returns an error; with no attribute set   *)
(* it returns an error without a remote call.                              *)
(***************************************************************************)
LookupPriority ==
    <<"user_principal_name", "object_id", "mail", "mail_nickname", "employee_id">>

\* the first attribute of LookupPriority that is in g
FirstGiven(g) ==
    LookupPriority[CHOOSE i \in 1..Len(LookupPriority) :
                        /\ LookupPriority[i] \in g
                        /\ \A j \in 1..(i - 1) : LookupPriority[j] \notin g]

ExpectedLookupCall(a) ==
    IF a = "object_id" THEN "Get"
    ELSE IF a = "user_principal_name" THEN "List userPrincipalName"
    ELSE IF a = "mail" THEN "List mail"
    ELSE IF a = "mail_nickname" THEN "List mailNickname"
    ELSE "List employeeId"

ReturnsErrorWithoutId(p) ==
    /\ pc'[p] = "done"
    /\ result'[p] \notin {"ok", None}
    /\ resourceId'[p] = NoId

C27_SingleLookupByPriority ==
    [][\A p \in Procs :
          /\ (pc[p] = "ds_find" /\ pc'[p] # "ds_find") =>
                IF given[p] = {}
                THEN ReturnsErrorWithoutId(p) /\ calls'[p] = <<>>
                ELSE /\ calls'[p] = <<ExpectedLookupCall(FirstGiven(given[p]))>>
                     /\ pc'[p] = "ds_getManager" => status'[p] = "one"
                     /\ status'[p] \in {"none", "many", NotFound}
                            => ReturnsErrorWithoutId(p)
                     /\ resourceId'[p] # NoId => pc'[p] = "ds_getManager"
          /\ (pc[p] = "ds_getManager" /\ pc'[p] # "ds_getManager") =>
                calls'[p] = Append(calls[p], "GetManager")
      ]_vars

\* called with user_principal_name and object_id, the data source has listed
\* by user principal name, found one user and set its ID
C27_Witness ==
    \E p \in Procs :
        /\ op[p] = "userDataSourceRead"
        /\ {"user_principal_name", "object_id"} \subseteq given[p]
        /\ pc[p] = "ds_getManager"
        /\ calls[p] = <<"List userPrincipalName">>
        /\ status[p] = "one"
        /\ resourceId[p] # NoId

(***************************************************************************)
(* C28: ResourceApplicationInstanceStateUpgradeV0, handed a state whose    *)
(* group_membership_claims is the string s, returns no error and a state   *)
(* in which group_membership_claims is the list [s],                       *)
(* fallback_public_client_enabled is the old public_client value if it was *)
(* missing or nil and its old value otherwise, public_client is gone, and  *)
(* every other key is as it was.                                           *)
(***************************************************************************)
UpgradedKeysV0 ==
    {"group_membership_claims", "public_client", "fallback_public_client_enabled"}

C28_StateUpgradeV0 ==
    (upgrades = <<"V0">> /\ "group_membership_claims" \in DOMAIN rawStateIn
        /\ rawStateIn["group_membership_claims"][1] = "string") =>
        /\ upgradeErr = "nil"
        /\ rawState["group_membership_claims"]
                = <<"list">> \o rawStateIn["group_membership_claims"]
        /\ "public_client" \notin DOMAIN rawState
        /\ "fallback_public_client_enabled" \in DOMAIN rawState
        /\ rawState["fallback_public_client_enabled"] =
              IF "fallback_public_client_enabled" \in DOMAIN rawStateIn
                 /\ rawStateIn["fallback_public_client_enabled"] # <<"nil">>
              THEN rawStateIn["fallback_public_client_enabled"]
              ELSE IF "public_client" \in DOMAIN rawStateIn
                   THEN rawStateIn["public_client"] ELSE <<"nil">>
        /\ DOMAIN rawState \ UpgradedKeysV0 = DOMAIN rawStateIn \ UpgradedKeysV0
        /\ \A k \in DOMAIN rawStateIn \ UpgradedKeysV0 : rawState[k] = rawStateIn[k]

\* a state with the claims string "All", public_client true and no
\* fallback_public_client_enabled has been upgraded
C28_Witness ==
    /\ upgrades = <<"V0">>
    /\ Lookup(rawStateIn, "group_membership_claims") = <<"string", "A", "l", "l">>
    /\ "fallback_public_client_enabled" \notin DOMAIN rawStateIn
    /\ Lookup(rawStateIn, "public_client") = <<"bool", "true">>
    /\ rawState["group_membership_claims"] = <<"list", "string", "A", "l", "l">>
    /\ rawState["fallback_public_client_enabled"] = <<"bool", "true">>
    /\ upgradeErr = "nil"

(***************************************************************************)
(* C29: ResourceApplicationInstanceStateUpgradeV1, when the stored id is a *)
(* valid UUID u, replaces the id by the application resource ID built from *)
(* u and leaves every other key unchanged; when the stored id is not a     *)
(* valid UUID it returns an error and the state unchanged; applied to its  *)
(* own output it fails and leaves that output unchanged.                   *)
(***************************************************************************)
\* the UUIDs among the strings the upgrade is tried on
UuidInputs ==
    {[i \in 1..36 |-> IF i \in {9, 14, 19, 24} THEN "-" ELSE c] : c \in {"a", "0", "F"}}

AppliesV1 == upgrades' = Append(upgrades, "V1")

C29_StateUpgradeV1 ==
    [][AppliesV1 =>
        LET u == SubSeq(rawState["id"], 2, Len(rawState["id"]))
        IN  /\ IF u \in UuidInputs
               THEN /\ upgradeErr' = "nil"
                    /\ rawState'["id"] =
                          <<"string", "/", "a", "p", "p", "l", "i", "c", "a", "t", "i",
                            "o", "n", "s", "/">> \o u
                    /\ rawState'["id"] # rawState["id"]
                    /\ DOMAIN rawState' = DOMAIN rawState
                    /\ \A k \in DOMAIN rawState \ {"id"} : rawState'[k] = rawState[k]
               ELSE /\ upgradeErr' = "error"
                    /\ rawState' = rawState
            /\ (Len(upgrades) >= 1 /\ upgrades[Len(upgrades)] = "V1"
                    /\ upgradeErr = "nil") =>
                    (upgradeErr' = "error" /\ rawState' = rawState)
    ]_vars

\* the upgrade has replaced a UUID and then been applied to its own output
C29_Witness ==
    /\ upgrades = <<"V1", "V1">>
    /\ Chars(rawStateIn["id"]) \in UuidInputs
    /\ rawState["id"] = <<"string">> \o NewApplicationID(Chars(rawStateIn["id"]))
    /\ upgradeErr = "error"

(***************************************************************************)
(* C30: when its context carries no deadline,                              *)
(* administrativeUnitMemberResourceCreate returns an error without         *)
(* starting the visibility poll and without setting the resource ID; the   *)
(* check comes after AddMembers has been issued, so the membership exists  *)
(* remotely while no resource is recorded in state.                        *)
(***************************************************************************)
C30_NoDeadlineAfterAddMembers ==
    [][\A p \in Procs :
          (IsCreate(p) /\ pc[p] # "done" /\ pc'[p] = "done"
                /\ result'[p] = "NoDeadline") =>
            /\ pc[p] = "c_addMembers"
            /\ mutations[p] = 0 /\ mutations'[p] = 1
            /\ membership'[objectId[p]] = "present"
            /\ resourceId'[p] = NoId
            /\ targetOccurence[p] = 0 /\ targetOccurence'[p] = 0
            /\ script'[p] = 0
      ]_vars

\* a Create has returned for want of a deadline: the member is in the
\* administrative unit, which had no such member before, and no ID is set
C30_Witness ==
    \E p \in Procs :
        /\ IsCreate(p) /\ pc[p] = "done"
        /\ result[p] = "NoDeadline"
        /\ mutations[p] = 1
        /\ membership[objectId[p]] = "present"
        /\ resourceId[p] = NoId

====
